---------------------------- MODULE Spec2Model ----------------------------
(***************************************************************************)
(* Model of core/jni/android_server_BluetoothEventLoop.cpp: the Bluetooth  *)
(* event loop (start/stop/isRunning), its worker thread, the Watch Set     *)
(* (pollData/watchData), the control socket pair with its byte framing,    *)
(* the D-Bus watch hooks, and the asynchronous result callbacks.           *)
(***************************************************************************)
EXTENDS Integers, Sequences, FiniteSets, TLC

(***************************************************************************)
(* Bounds of the model.                                                    *)
(***************************************************************************)
\* Calls made into the file from outside the worker's loop: lifecycle calls
\* of the application, hook calls of the bus library, asynchronous calls
\* issued.
MaxCalls == 4

(***************************************************************************)
(* Program constants.                                                      *)
(***************************************************************************)
EVENT_LOOP_EXIT == 1
EVENT_LOOP_ADD == 2
EVENT_LOOP_REMOVE == 3

\* <poll.h> and <dbus/dbus.h> values of the names the source uses.
POLLIN == 1
POLLOUT == 4
POLLNVAL == 32
DBUS_WATCH_READABLE == 1
DBUS_WATCH_WRITABLE == 2

\* Initial capacity of pollData/watchData.  The header that defines it is not
\* part of the file; the model takes a small capacity so that the growth
\* branch of handleWatchAdd is exercised.
DEFAULT_INITIAL_POLLFD_COUNT == 2

BOND_RESULT_ERROR == -1000
BOND_RESULT_SUCCESS == 0
BOND_RESULT_AUTH_FAILED == 1
BOND_RESULT_AUTH_REJECTED == 2
BOND_RESULT_AUTH_CANCELED == 3
BOND_RESULT_REMOTE_DEVICE_DOWN == 4
BOND_RESULT_DISCOVERY_IN_PROGRESS == 5

\* sizeof(int), sizeof(unsigned int), sizeof(DBusWatch*) on the 32-bit target
\* (the file stores the native pointer in a jint, line 109).
WordBytes == 4

(***************************************************************************)
(* The environment: descriptors and the bus library's watches.             *)
(***************************************************************************)
\* The bus connection's socket.
BusFd == 5
\* socketpair() hands out fresh descriptors; the file never close()s them.
CtlFdR(made) == 10 + 2 * made
CtlFdW(made) == 11 + 2 * made

\* The bus library's DBusWatch objects: the address of the object (the value
\* written as the watch handle), its descriptor and its flags.
Watches ==
    { [h |-> 74560,      fd |-> BusFd, flags |-> DBUS_WATCH_READABLE],
      [h |-> 1073816400, fd |-> BusFd, flags |-> DBUS_WATCH_WRITABLE] }

WatchHandles == { w.h : w \in Watches }

\* A byte of memory that was never written (a short read leaves the rest of
\* the local variable as it was).
UninitBytes == {0, 127}

(***************************************************************************)
(* Bytes on the control socket.                                            *)
(***************************************************************************)
\* The bytes write(fd, &x, sizeof x) puts on the socket, little endian.
LE4(x) == << x % 256, (x \div 256) % 256, (x \div 65536) % 256,
             (x \div 16777216) % 256 >>

\* The value read(fd, &x, sizeof x) leaves in x from four bytes.
FromLE4(b) == b[1] + 256 * b[2] + 65536 * b[3] + 16777216 * b[4]

\* x & bit, for a single-bit mask.
HasBit(x, bit) == (x \div bit) % 2 = 1

\* The values a blocking read of WordBytes bytes can leave in the variable:
\* all four bytes when they are there, otherwise the bytes there are followed
\* by whatever the variable held.
ReadWord(c) ==
    IF Len(c) >= WordBytes
    THEN { FromLE4(SubSeq(c, 1, WordBytes)) }
    ELSE { FromLE4(c \o pad) : pad \in [1..(WordBytes - Len(c)) -> UninitBytes] }

\* What is left on the socket after that read.
AfterWord(c) ==
    IF Len(c) >= WordBytes THEN SubSeq(c, WordBytes + 1, Len(c)) ELSE << >>

(***************************************************************************)
(* State.                                                                  *)
(***************************************************************************)
VARIABLES
    nat,       \* native_data_t: the fields the file reads and writes
    mutex,     \* nat->thread_mutex: "free" or the call that holds it
    chan,      \* bytes written to controlFdW and not yet read from controlFdR
    ctl,       \* the socket pairs: how many were made, what was shut down
    bus,       \* registrations on the connection: filter, match rules, agent
    threads,   \* worker threads created and not yet terminated
    wpc,       \* the worker's position in eventLoopMain
    wi,        \* the worker's scan index i
    wloc,      \* what handleWatchAdd/handleWatchRemove last read, and the
               \* line the call logged
    handed,    \* arguments of the dbus_watch_handle call in progress
    hook,      \* writes the watch hook in progress has still to make
    stopPc,    \* stopEventLoopNative: "idle" or "join"
    calls,     \* how many calls were made from outside the worker's loop
    ret,       \* the last return of a lifecycle call: which call, its value
               \* (for stop: whether it joined the worker), and when
    pend,      \* the outstanding asynchronous call, if any
    cb,        \* the last application callback invoked
    implied,   \* history: (descriptor, flags) pairs the hook calls imply
    sent,      \* history: control messages in the order they were started
    wexp,      \* history: the message whose command byte the worker consumed
    allocFailed, \* history: an allocation in handleWatchAdd has failed
    inb        \* the last message the library handed to event_filter or
               \* agent_event_filter, what the function did with it in
               \* order, and what it returned

vars == << nat, mutex, chan, ctl, bus, threads, wpc, wi, wloc, handed, hook,
           stopPc, calls, ret, pend, cb, implied, sent, wexp, allocFailed,
           inb >>

loopVars == << nat, mutex, chan, ctl, bus, threads, wpc, wi, wloc, handed,
               hook, stopPc, implied, sent, wexp, allocFailed >>

(***************************************************************************)
(* The Watch Set: pollData[0..pollMemberCount-1] and watchData.            *)
(***************************************************************************)
\* Memory malloc returned and nothing wrote yet; never read by the program.
UninitPollfd == [fd |-> 0, events |-> 0, revents |-> 0]
UninitWatch == 0

\* memset(.., 0, ..) of the arrays in startEventLoopNative.
ZeroPollfd == [fd |-> 0, events |-> 0, revents |-> 0]

\* (flags & DBUS_WATCH_READABLE ? POLLIN : 0) | (flags & DBUS_WATCH_WRITABLE ? POLLOUT : 0)
EventsOfFlags(flags) ==
    (IF HasBit(flags, DBUS_WATCH_READABLE) THEN POLLIN ELSE 0)
  + (IF HasBit(flags, DBUS_WATCH_WRITABLE) THEN POLLOUT ELSE 0)

\* (event & POLLIN ? DBUS_WATCH_READABLE : 0) | (event & POLLOUT ? DBUS_WATCH_WRITABLE : 0)
FlagsOfEvents(event) ==
    (IF HasBit(event, POLLIN) THEN DBUS_WATCH_READABLE ELSE 0)
  + (IF HasBit(event, POLLOUT) THEN DBUS_WATCH_WRITABLE ELSE 0)

\* The indices y (counted from 1) the search loops of handleWatchAdd and
\* handleWatchRemove stop at.
Matching(n, fd, events) ==
    { y \in 1..n.pollMemberCount :
        n.pollData[y].fd = fd /\ n.pollData[y].events = events }

\* A duplicate search that never finds the pair: handleWatchAdd without its
\* lines 414-420.
NoDuplicateSearch(n, newFD, events) == FALSE

\* The duplicate search of handleWatchAdd, lines 414-420.
IsDuplicateAdd(n, newFD, events) == Matching(n, newFD, events) # {}

\* handleWatchAdd without the growth branch of lines 421-442: the entry is
\* stored at index pollMemberCount whatever the capacity.
HandleWatchAddNoGrowth(n, newFD, flags, watch, okPoll, okWatch) ==
    LET events == EventsOfFlags(flags)
        count == n.pollMemberCount
    IN  IF Matching(n, newFD, events) # {} THEN n
        ELSE IF count < Len(n.pollData)
        THEN [n EXCEPT
                !.pollData[count + 1] =
                    [fd |-> newFD, events |-> events, revents |-> 0],
                !.watchData[count + 1] = watch,
                !.pollMemberCount = count + 1]
        ELSE [n EXCEPT !.pollMemberCount = count + 1]

\* handleWatchAdd with "nat->pollDataSize++" placed before the second malloc:
\* when that malloc fails the recorded capacity is one more than watchData
\* holds.
HandleWatchAddSizeFirst(n, newFD, flags, watch, okPoll, okWatch) ==
    LET events == EventsOfFlags(flags)
        count == n.pollMemberCount
        grow == count = n.pollDataSize
        grownPoll == SubSeq(n.pollData, 1, count) \o << UninitPollfd >>
        grownWatch == SubSeq(n.watchData, 1, count) \o << UninitWatch >>
        g == IF grow
             THEN [n EXCEPT !.pollData = grownPoll, !.watchData = grownWatch,
                            !.pollDataSize = @ + 1]
             ELSE n
    IN  IF Matching(n, newFD, events) # {} THEN n
        ELSE IF grow /\ ~okPoll THEN n
        ELSE IF grow /\ ~okWatch
        THEN [n EXCEPT !.pollData = grownPoll, !.pollDataSize = @ + 1]
        ELSE [g EXCEPT
                !.pollData[count + 1] =
                    [fd |-> newFD, events |-> events, revents |-> 0],
                !.watchData[count + 1] = watch,
                !.pollMemberCount = count + 1]

\* handleWatchAdd after its three reads.  okPoll and okWatch say whether the
\* two malloc calls of the growth branch succeed.
HandleWatchAdd(n, newFD, flags, watch, okPoll, okWatch) ==
    LET events == EventsOfFlags(flags)
        count == n.pollMemberCount
        grow == count = n.pollDataSize
        grownPoll == SubSeq(n.pollData, 1, count) \o << UninitPollfd >>
        grownWatch == SubSeq(n.watchData, 1, count) \o << UninitWatch >>
        g == IF grow
             THEN [n EXCEPT !.pollData = grownPoll, !.watchData = grownWatch,
                            !.pollDataSize = @ + 1]
             ELSE n
    IN  IF IsDuplicateAdd(n, newFD, events) THEN n
        ELSE IF grow /\ ~okPoll THEN n
        ELSE IF grow /\ ~okWatch THEN [n EXCEPT !.pollData = grownPoll]
        ELSE [g EXCEPT
                !.pollData[count + 1] =
                    [fd |-> newFD, events |-> events, revents |-> 0],
                !.watchData[count + 1] = watch,
                !.pollMemberCount = count + 1]

\* handleWatchRemove with the decrement of line 462 made when the search ends
\* without a match as well: a pair that is not found costs the set its last
\* entry.
HandleWatchRemoveUnguarded(n, removeFD, flags) ==
    LET found == Matching(n, removeFD, EventsOfFlags(flags))
        newCount == n.pollMemberCount - 1
    IN  IF n.pollMemberCount = 0 THEN n
        ELSE IF found = {} THEN [n EXCEPT !.pollMemberCount = newCount]
        ELSE LET y == CHOOSE m \in found : \A k \in found : m <= k
             IN  [n EXCEPT
                    !.pollMemberCount = newCount,
                    !.pollData[y] = n.pollData[newCount + 1],
                    !.watchData[y] = n.watchData[newCount + 1]]

\* handleWatchRemove after its two reads: the first matching entry is
\* overwritten by the last live one.
HandleWatchRemove(n, removeFD, flags) ==
    LET events == EventsOfFlags(flags)
        found == Matching(n, removeFD, events)
    IN  IF found = {} THEN n
        ELSE LET y == CHOOSE m \in found : \A k \in found : m <= k
                 newCount == n.pollMemberCount - 1
             IN  [n EXCEPT
                    !.pollMemberCount = newCount,
                    !.pollData[y] = n.pollData[newCount + 1],
                    !.watchData[y] = n.watchData[newCount + 1]]

\* The line handleWatchAdd logs: LOGV at 417 and 422.
AddLogs(n, newFD, flags) ==
    IF IsDuplicateAdd(n, newFD, EventsOfFlags(flags)) THEN "DBusWatch duplicate add"
    ELSE IF n.pollMemberCount = n.pollDataSize
    THEN "Bluetooth EventLoop poll struct growing"
    ELSE ""

\* The line handleWatchRemove logs: LOGW at 471.
RemoveLogs(n, removeFD, flags) ==
    IF Matching(n, removeFD, EventsOfFlags(flags)) = {}
    THEN "WatchRemove given with unknown watch"
    ELSE ""

\* The live entries as (descriptor, events, handle) triples.
Entries(n) ==
    { << n.pollData[y].fd, n.pollData[y].events, n.watchData[y] >> :
        y \in 1..n.pollMemberCount }


(***************************************************************************)
(* Registrations on the bus connection: setUpEventLoop, register_agent,    *)
(* tearDownEventLoop.                                                      *)
(***************************************************************************)
\* The interfaces of the match rules "type='signal',interface='...'" that
\* setUpEventLoop adds, in order (lines 167-194).
AddedRules == << "org.freedesktop.DBus", "org.bluez.Adapter",
                 "org.bluez.Device", "org.bluez.AudioSink" >>

\* The interfaces of the match rules tearDownEventLoop removes (lines 320-349).
RemovedRules == { "org.bluez.audio.Sink", "org.bluez.audio.Device",
                  "org.bluez.audio.Manager", "org.bluez.Adapter",
                  "org.freedesktop.DBus" }

Rules == { AddedRules[k] : k \in 1..Len(AddedRules) } \cup RemovedRules

\* What get_adapter_path returns when the daemon answers, and when not (NULL).
AdapterPath == "/org/bluez/hci0"
NoAdapter == "NULL"

\* The places startEventLoopNative can fail at, in program order, then "ok".
StartSteps == << "oom_poll", "oom_watch", "socketpair", "noconn", "filter",
                 "match1", "match2", "match3", "match4", "agent_path",
                 "agent_adapter", "agent_reply", "ok" >>

Ord(o) == CHOOSE k \in 1..Len(StartSteps) : StartSteps[k] = o

\* The start got past step s.
Past(o, s) == Ord(o) > Ord(s)

\* The outcomes open to a start: with no connection setUpEventLoop returns
\* at once (line 156).
StartOutcomes(n) ==
    IF n.conn
    THEN { StartSteps[k] : k \in 1..Len(StartSteps) } \ {"noconn"}
    ELSE { "oom_poll", "oom_watch", "socketpair", "noconn" }

\* setUpEventLoop with register_agent, ending as outcome o says.
SetUpEventLoop(b, o) ==
    [ filter |-> IF Past(o, "filter") THEN b.filter + 1 ELSE b.filter,
      matches |-> [ r \in Rules |->
                     IF \E k \in 1..Len(AddedRules) :
                            /\ AddedRules[k] = r
                            /\ Past(o, StartSteps[Ord("match1") + k - 1])
                     THEN b.matches[r] + 1
                     ELSE b.matches[r] ],
      \* registered by register_agent, unregistered again at line 199 when
      \* register_agent fails
      agentPath |-> IF o = "ok" THEN TRUE
                    ELSE IF Past(o, "match4") THEN FALSE
                    ELSE b.agentPath ]

\* tearDownEventLoop: a rule that was never added is not found, and the error
\* is logged.
TearDownEventLoop(b) ==
    [ filter |-> IF b.filter > 0 THEN b.filter - 1 ELSE 0,
      matches |-> [ r \in Rules |->
                     IF r \in RemovedRules /\ b.matches[r] > 0
                     THEN b.matches[r] - 1
                     ELSE b.matches[r] ],
      agentPath |-> FALSE ]

(***************************************************************************)
(* Control messages, as the history variables record them.                 *)
(***************************************************************************)
Msg(cmd, fd, flags, watch) ==
    [cmd |-> cmd, fd |-> fd, flags |-> flags, watch |-> watch]

NoMsg == Msg(0, 0, 0, 0)

NoLocals == [fd |-> 0, flags |-> 0, watch |-> 0, log |-> ""]
NotHanded == [watch |-> 0, flags |-> 0]
NoReply == [type |-> "none", name |-> "", message |-> "", argType |-> "none",
            arg |-> 0]
NoCall == [kind |-> "none", st |-> "none", reply |-> NoReply, done |-> 0,
           frees |-> 0, cbs |-> 0, val |-> 0, torn |-> FALSE, ops |-> << >>]
NoCallback == [name |-> "none", val |-> 0]
NoMessage == [type |-> "none", path |-> "", iface |-> "", member |-> "",
              args |-> << >>]
NoInbound == [fn |-> "none", msg |-> NoMessage, did |-> << >>, result |-> "none",
              oom |-> FALSE]

(***************************************************************************)
(* Initial state: after initializeNativeDataNative (calloc, then           *)
(* dbus_bus_get, which may fail and leave conn NULL).                      *)
(***************************************************************************)
Init ==
    /\ nat \in { [ conn |-> c, pollData |-> << >>, watchData |-> << >>,
                   pollDataSize |-> 0, pollMemberCount |-> 0,
                   controlFdR |-> 0, controlFdW |-> 0, me |-> FALSE,
                   adapter |-> NoAdapter ] : c \in BOOLEAN }
    /\ mutex = "free"
    /\ chan = << >>
    /\ ctl = [made |-> 0, shutR |-> FALSE, shutW |-> FALSE]
    /\ bus = [filter |-> 0, matches |-> [r \in Rules |-> 0], agentPath |-> FALSE]
    /\ threads = 0
    /\ wpc = "none"
    /\ wi = 0
    /\ wloc = NoLocals
    /\ handed = NotHanded
    /\ hook = << >>
    /\ stopPc = "idle"
    /\ calls = 0
    /\ ret = [op |-> "none", val |-> FALSE, at |-> 0]
    /\ pend = NoCall
    /\ cb = NoCallback
    /\ implied = {}
    /\ sent = << >>
    /\ wexp = NoMsg
    /\ allocFailed = FALSE
    /\ inb = NoInbound

(***************************************************************************)
(* Lifecycle: startEventLoopNative, stopEventLoopNative,                   *)
(* isEventLoopRunningNative.                                               *)
(***************************************************************************)
\* The test "if (nat->pollData)" that the three lifecycle calls make.
IsStarted(n) == n.pollData # << >>

\* startEventLoopNative without its test of line 546.
StartNeverFindsLoop(n) == FALSE

\* stopEventLoopNative without its test of line 620.
StopAlwaysFindsLoop(n) == TRUE

\* stopEventLoopNative without its pthread_join of line 624.
JoinReturnsAtOnce == TRUE

\* The test at the head of startEventLoopNative, line 546.
StartFindsLoop(n) == IsStarted(n)

\* The test at the head of stopEventLoopNative, line 620.
StopFindsLoop(n) == IsStarted(n)

\* pthread_join(nat->thread, &ret) returns: the worker thread has terminated.
WorkerJoined == wpc = "exited"

\* The mutex when startEventLoopNative returns from its early exit (line 548).
MutexAfterRejectedStart == "free"

\* The fields as the "done:" block of startEventLoopNative and the end of
\* stopEventLoopNative leave them.
\* Variant: the reset leaves the Watch Set storage in place.
ClearedKeepsStorage(n) ==
    [n EXCEPT !.pollMemberCount = 0, !.controlFdR = 0, !.controlFdW = 0,
              !.me = FALSE]

Cleared(n) ==
    [n EXCEPT !.pollData = << >>, !.watchData = << >>, !.pollDataSize = 0,
              !.pollMemberCount = 0, !.controlFdR = 0, !.controlFdW = 0,
              !.me = FALSE]

\* The fields after the successful part of startEventLoopNative, lines 552-583.
Started(n, made) ==
    [n EXCEPT
       !.pollData = [ k \in 1..DEFAULT_INITIAL_POLLFD_COUNT |->
                        IF k = 1
                        THEN [fd |-> CtlFdR(made), events |-> POLLIN, revents |-> 0]
                        ELSE ZeroPollfd ],
       !.watchData = [ k \in 1..DEFAULT_INITIAL_POLLFD_COUNT |-> 0 ],
       !.pollDataSize = DEFAULT_INITIAL_POLLFD_COUNT,
       !.pollMemberCount = 1,
       !.controlFdR = CtlFdR(made),
       !.controlFdW = CtlFdW(made),
       !.me = TRUE]

\* nat->adapter as register_agent leaves it (line 255).
AdapterAfter(n, o) ==
    IF o \in {"agent_reply", "ok"} THEN AdapterPath
    ELSE IF o = "agent_adapter" THEN NoAdapter
    ELSE n.adapter

startEventLoopNative ==
    /\ mutex = "free"
    /\ calls < MaxCalls
    /\ calls' = calls + 1
    /\ IF StartFindsLoop(nat)
       THEN /\ ret' = [op |-> "start", val |-> FALSE, at |-> calls']
            /\ mutex' = MutexAfterRejectedStart
            /\ UNCHANGED << nat, chan, ctl, bus, threads, wpc, wi, wloc,
                            handed, hook, stopPc, implied, sent, wexp,
                            allocFailed >>
       ELSE \E o \in StartOutcomes(nat) :
            /\ ret' = [op |-> "start", val |-> (o = "ok"), at |-> calls']
            /\ mutex' = "free"
            /\ bus' = SetUpEventLoop(bus, o)
            /\ IF Past(o, "socketpair")
               THEN /\ ctl' = [made |-> ctl.made + 1, shutR |-> FALSE,
                               shutW |-> (o # "ok")]
                    /\ chan' = << >>
                    /\ sent' = << >>
               ELSE UNCHANGED << ctl, chan, sent >>
            /\ IF o = "ok"
               THEN /\ nat' = [Started(nat, ctl.made) EXCEPT
                                 !.adapter = AdapterAfter(nat, o)]
                    /\ threads' = threads + 1
                    /\ wpc' = "init"
                    /\ wi' = 0
                    /\ implied' = {}
                    /\ allocFailed' = FALSE
               ELSE /\ nat' = [Cleared(nat) EXCEPT
                                 !.adapter = AdapterAfter(nat, o)]
                    /\ UNCHANGED << threads, wpc, wi, implied, allocFailed >>
            /\ UNCHANGED << wloc, handed, hook, stopPc, wexp >>
    /\ UNCHANGED << pend, cb >>
    /\ UNCHANGED inb

\* stopEventLoopNative up to pthread_join: on a started loop it writes the
\* Exit byte and waits, holding the mutex; otherwise it returns.
stopEventLoopNative ==
    /\ mutex = "free"
    /\ calls < MaxCalls
    /\ calls' = calls + 1
    /\ IF StopFindsLoop(nat)
       THEN /\ mutex' = "stop"
            /\ chan' = Append(chan, EVENT_LOOP_EXIT)
            /\ sent' = Append(sent, Msg(EVENT_LOOP_EXIT, 0, 0, 0))
            /\ stopPc' = "join"
            /\ UNCHANGED ret
       ELSE /\ ret' = [op |-> "stop", val |-> FALSE, at |-> calls']
            /\ UNCHANGED << mutex, chan, sent, stopPc >>
    /\ UNCHANGED << nat, ctl, bus, threads, wpc, wi, wloc, handed, hook,
                    implied, wexp, allocFailed, pend, cb >>
    /\ UNCHANGED inb

\* stopEventLoopNative from the return of pthread_join to its end.
stopJoined ==
    /\ stopPc = "join"
    /\ WorkerJoined
    /\ wpc' = IF wpc = "exited" THEN "none" ELSE wpc
    /\ nat' = Cleared(nat)
    /\ ctl' = [ctl EXCEPT !.shutW = TRUE]
    /\ mutex' = "free"
    /\ stopPc' = "idle"
    /\ ret' = [op |-> "stop", val |-> TRUE, at |-> calls]
    /\ UNCHANGED << chan, bus, threads, wi, wloc, handed, hook, calls,
                    implied, sent, wexp, allocFailed, pend, cb >>
    /\ UNCHANGED inb

\* isEventLoopRunningNative without the lock of line 648: it reads the field
\* whoever holds the mutex.
isEventLoopRunningNativeUnlocked ==
    /\ calls < MaxCalls
    /\ calls' = calls + 1
    /\ ret' = [op |-> "isRunning", val |-> IsStarted(nat), at |-> calls']
    /\ UNCHANGED << loopVars, pend, cb >>
    /\ UNCHANGED inb

isEventLoopRunningNative ==
    /\ mutex = "free"
    /\ calls < MaxCalls
    /\ calls' = calls + 1
    /\ ret' = [op |-> "isRunning", val |-> IsStarted(nat), at |-> calls']
    /\ UNCHANGED << loopVars, pend, cb >>
    /\ UNCHANGED inb

(***************************************************************************)
(* The watch hooks: dbusAddWatch, dbusRemoveWatch, dbusToggleWatch.  The   *)
(* bus library calls them on the worker thread, from inside                *)
(* dbus_connection_set_watch_functions, dbus_watch_handle and              *)
(* dbus_connection_dispatch.  Each write() is a step of its own: another   *)
(* thread can write to the same socket between two of them.                *)
(***************************************************************************)
\* The write() calls of dbusAddWatch for watch w, enabled or not.
AddWatchWrites(w, enabled) ==
    IF enabled
    THEN << << EVENT_LOOP_ADD >>, LE4(w.fd), LE4(w.flags), LE4(w.h) >>
    ELSE << >>

\* The write() calls of dbusRemoveWatch.
RemoveWatchWrites(w) == << << EVENT_LOOP_REMOVE >>, LE4(w.fd), LE4(w.flags) >>

\* dbusToggleWatch calls one or the other.
ToggleWatchWrites(w, enabled) ==
    IF enabled THEN AddWatchWrites(w, enabled) ELSE RemoveWatchWrites(w)

\* The worker is inside a bus-library call that may invoke hooks.
InLibrary == wpc \in {"setfn", "handle", "dispatch", "unsetfn"}

\* A hook is entered and makes its first write, if it writes at all.
HookEnters(writes, msg, pairs) ==
    /\ hook = << >>
    /\ calls < MaxCalls
    /\ calls' = calls + 1
    /\ implied' = pairs
    /\ IF writes = << >>
       THEN UNCHANGED << chan, hook, sent >>
       ELSE /\ chan' = chan \o Head(writes)
            /\ hook' = Tail(writes)
            /\ sent' = Append(sent, msg)
    /\ UNCHANGED << nat, mutex, ctl, bus, threads, wpc, wi, wloc, handed,
                    stopPc, ret, pend, cb, wexp, allocFailed >>
    /\ UNCHANGED inb

AddMsg(w) == Msg(EVENT_LOOP_ADD, w.fd, w.flags, w.h)
RemoveMsg(w) == Msg(EVENT_LOOP_REMOVE, w.fd, w.flags, 0)

\* set_watch_functions adds every watch the connection has; handling and
\* dispatching add watches as the connection's state changes.
dbusAddWatch ==
    /\ wpc \in {"setfn", "handle", "dispatch"}
    /\ \E w \in Watches, enabled \in BOOLEAN :
          HookEnters(AddWatchWrites(w, enabled), AddMsg(w),
                     IF enabled THEN implied \cup {<< w.fd, w.flags >>}
                     ELSE implied)

\* Replacing the watch functions at exit removes every watch from the old ones.
dbusRemoveWatch ==
    /\ wpc \in {"handle", "dispatch", "unsetfn"}
    /\ \E w \in Watches :
          HookEnters(RemoveWatchWrites(w), RemoveMsg(w),
                     implied \ {<< w.fd, w.flags >>})

dbusToggleWatch ==
    /\ wpc \in {"handle", "dispatch"}
    /\ \E w \in Watches, enabled \in BOOLEAN :
          HookEnters(ToggleWatchWrites(w, enabled),
                     IF enabled THEN AddMsg(w) ELSE RemoveMsg(w),
                     IF enabled THEN implied \cup {<< w.fd, w.flags >>}
                     ELSE implied \ {<< w.fd, w.flags >>})

\* The next write() of the hook in progress.
hookWrite ==
    /\ hook # << >>
    /\ chan' = chan \o Head(hook)
    /\ hook' = Tail(hook)
    /\ UNCHANGED << nat, mutex, ctl, bus, threads, wpc, wi, wloc, handed,
                    stopPc, calls, ret, pend, cb, implied, sent, wexp,
                    allocFailed >>
    /\ UNCHANGED inb

(***************************************************************************)
(* The worker: eventLoopMain.                                              *)
(***************************************************************************)
\* Descriptors that are open in the process.
OpenFds ==
    {BusFd} \cup { CtlFdR(k) : k \in 0..(ctl.made - 1) }
            \cup { CtlFdW(k) : k \in 0..(ctl.made - 1) }

\* What poll() can report for one entry.
Revents(e) ==
    IF e.fd = nat.controlFdR
    THEN { IF chan # << >> /\ HasBit(e.events, POLLIN) THEN POLLIN ELSE 0 }
    ELSE IF e.fd \notin OpenFds THEN { POLLNVAL }
    ELSE { r \in {0, POLLIN, POLLOUT, POLLIN + POLLOUT} :
             /\ HasBit(r, POLLIN) => HasBit(e.events, POLLIN)
             /\ HasBit(r, POLLOUT) => HasBit(e.events, POLLOUT) }

\* The value eventLoopMain passes to dbus_watch_handle as the readiness of
\* the entry, line 524.
HandedFlags(event) == event

\* Thread start: AttachCurrentThread, then dbus_connection_set_watch_functions.
eventLoopStart ==
    /\ wpc = "init"
    /\ wpc' = "setfn"
    /\ UNCHANGED << nat, mutex, chan, ctl, bus, threads, wi, wloc, handed,
                    hook, stopPc, calls, ret, pend, cb, implied, sent, wexp,
                    allocFailed >>
    /\ UNCHANGED inb

\* dbus_connection_set_watch_functions returns; the first scan begins.
watchFunctionsSet ==
    /\ wpc = "setfn"
    /\ hook = << >>
    /\ wpc' = "scan"
    /\ wi' = 0
    /\ UNCHANGED << nat, mutex, chan, ctl, bus, threads, wloc, handed, hook,
                    stopPc, calls, ret, pend, cb, implied, sent, wexp,
                    allocFailed >>
    /\ UNCHANGED inb

\* The for loop from index i on, up to the first entry with revents set: the
\* control entry starts the recv loop, any other entry is handed to
\* dbus_watch_handle; with no ready entry the loop ends.  A handle that is no
\* DBusWatch of the library makes the call undefined: it may crash the thread.
scanEntries ==
    /\ wpc = "scan"
    /\ LET ready == { y \in wi..(nat.pollMemberCount - 1) :
                        nat.pollData[y + 1].revents # 0 }
       IN  IF ready = {}
           THEN /\ wpc' = "dispatch"
                /\ UNCHANGED << wi, handed >>
           ELSE LET i == CHOOSE y \in ready : \A z \in ready : y <= z
                    e == nat.pollData[i + 1]
                IN  /\ wi' = i
                    /\ IF e.fd = nat.controlFdR
                       THEN /\ wpc' = "drain"
                            /\ UNCHANGED handed
                       ELSE /\ handed' = [watch |-> nat.watchData[i + 1],
                                          flags |-> HandedFlags(e.revents)]
                            /\ IF nat.watchData[i + 1] \in WatchHandles
                               THEN wpc' = "handle"
                               ELSE wpc' \in {"handle", "crashed"}
    /\ UNCHANGED << nat, mutex, chan, ctl, bus, threads, wloc, hook, stopPc,
                    calls, ret, pend, cb, implied, sent, wexp, allocFailed >>
    /\ UNCHANGED inb

\* recv(controlFdR, &data, 1, MSG_DONTWAIT) and the switch on the byte.
recvControl ==
    /\ wpc = "drain"
    /\ IF chan = << >>
       THEN /\ wpc' = "scan"
            /\ wi' = wi + 1
            /\ UNCHANGED << chan, sent, wexp >>
       ELSE /\ chan' = Tail(chan)
            /\ wi' = wi
            /\ IF Head(chan) \in {EVENT_LOOP_EXIT, EVENT_LOOP_ADD, EVENT_LOOP_REMOVE}
               THEN /\ wexp' = IF sent = << >> THEN NoMsg ELSE Head(sent)
                    /\ sent' = IF sent = << >> THEN sent ELSE Tail(sent)
               ELSE UNCHANGED << sent, wexp >>
            /\ wpc' = CASE Head(chan) = EVENT_LOOP_EXIT -> "unsetfn"
                        [] Head(chan) = EVENT_LOOP_ADD -> "add_fd"
                        [] Head(chan) = EVENT_LOOP_REMOVE -> "rm_fd"
                        [] OTHER -> "drain"
    /\ UNCHANGED << nat, mutex, ctl, bus, threads, wloc, handed, hook, stopPc,
                    calls, ret, pend, cb, implied, allocFailed >>
    /\ UNCHANGED inb

\* handleWatchAdd: read(controlFdR, &newFD, sizeof(int)); blocks on an empty
\* socket.
addReadFd ==
    /\ wpc = "add_fd"
    /\ chan # << >>
    /\ \E v \in ReadWord(chan) : wloc' = [wloc EXCEPT !.fd = v]
    /\ chan' = AfterWord(chan)
    /\ wpc' = "add_flags"
    /\ UNCHANGED << nat, mutex, ctl, bus, threads, wi, handed, hook, stopPc,
                    calls, ret, pend, cb, implied, sent, wexp, allocFailed >>
    /\ UNCHANGED inb

\* handleWatchAdd: read(controlFdR, &flags, sizeof(unsigned int)).
addReadFlags ==
    /\ wpc = "add_flags"
    /\ chan # << >>
    /\ \E v \in ReadWord(chan) : wloc' = [wloc EXCEPT !.flags = v]
    /\ chan' = AfterWord(chan)
    /\ wpc' = "add_watch"
    /\ UNCHANGED << nat, mutex, ctl, bus, threads, wi, handed, hook, stopPc,
                    calls, ret, pend, cb, implied, sent, wexp, allocFailed >>
    /\ UNCHANGED inb

\* handleWatchAdd: read(controlFdR, &watch, sizeof(DBusWatch *)) and the rest
\* of the function.
addReadWatch ==
    /\ wpc = "add_watch"
    /\ chan # << >>
    /\ \E v \in ReadWord(chan), okPoll \in BOOLEAN, okWatch \in BOOLEAN :
          /\ nat' = HandleWatchAdd(nat, wloc.fd, wloc.flags, v, okPoll, okWatch)
          /\ wloc' = [wloc EXCEPT !.watch = v,
                                  !.log = AddLogs(nat, wloc.fd, wloc.flags)]
          /\ allocFailed' =
                (allocFailed \/
                   (/\ ~IsDuplicateAdd(nat, wloc.fd, EventsOfFlags(wloc.flags))
                    /\ nat.pollMemberCount = nat.pollDataSize
                    /\ ~(okPoll /\ okWatch)))
    /\ chan' = AfterWord(chan)
    /\ wpc' = "drain"
    /\ UNCHANGED << mutex, ctl, bus, threads, wi, handed, hook, stopPc,
                    calls, ret, pend, cb, implied, sent, wexp >>
    /\ UNCHANGED inb

\* handleWatchRemove: read(controlFdR, &removeFD, sizeof(int)).
removeReadFd ==
    /\ wpc = "rm_fd"
    /\ chan # << >>
    /\ \E v \in ReadWord(chan) : wloc' = [wloc EXCEPT !.fd = v]
    /\ chan' = AfterWord(chan)
    /\ wpc' = "rm_flags"
    /\ UNCHANGED << nat, mutex, ctl, bus, threads, wi, handed, hook, stopPc,
                    calls, ret, pend, cb, implied, sent, wexp, allocFailed >>
    /\ UNCHANGED inb

\* handleWatchRemove: read(controlFdR, &flags, sizeof(unsigned int)) and the
\* rest of the function.
removeReadFlags ==
    /\ wpc = "rm_flags"
    /\ chan # << >>
    /\ \E v \in ReadWord(chan) :
          /\ nat' = HandleWatchRemove(nat, wloc.fd, v)
          /\ wloc' = [wloc EXCEPT !.flags = v, !.watch = 0,
                                  !.log = RemoveLogs(nat, wloc.fd, v)]
    /\ chan' = AfterWord(chan)
    /\ wpc' = "drain"
    /\ UNCHANGED << mutex, ctl, bus, threads, wi, handed, hook, stopPc,
                    calls, ret, pend, cb, implied, sent, wexp, allocFailed >>
    /\ UNCHANGED inb

\* The scan without the break of line 527: after dbus_watch_handle returns
\* the for loop goes on with the next entry.
watchHandledContinuesScan ==
    /\ wpc = "handle"
    /\ hook = << >>
    /\ nat' = [nat EXCEPT !.pollData[wi + 1].revents = 0]
    /\ handed' = NotHanded
    /\ wpc' = "scan"
    /\ wi' = wi + 1
    /\ UNCHANGED << mutex, chan, ctl, bus, threads, wloc, hook, stopPc,
                    calls, ret, pend, cb, implied, sent, wexp, allocFailed >>
    /\ UNCHANGED inb

\* dbus_watch_handle returns: revents of the entry is cleared and the scan
\* is left ("can only do one").
watchHandled ==
    /\ wpc = "handle"
    /\ hook = << >>
    /\ nat' = [nat EXCEPT !.pollData[wi + 1].revents = 0]
    /\ handed' = NotHanded
    /\ wpc' = "dispatch"
    /\ UNCHANGED << mutex, chan, ctl, bus, threads, wi, wloc, hook, stopPc,
                    calls, ret, pend, cb, implied, sent, wexp, allocFailed >>
    /\ UNCHANGED inb

\* dbus_connection_dispatch no longer reports DBUS_DISPATCH_DATA_REMAINS.
dispatchDone ==
    /\ wpc = "dispatch"
    /\ hook = << >>
    /\ wpc' = "poll"
    /\ UNCHANGED << nat, mutex, chan, ctl, bus, threads, wi, wloc, handed,
                    hook, stopPc, calls, ret, pend, cb, implied, sent, wexp,
                    allocFailed >>
    /\ UNCHANGED inb

\* poll(pollData, pollMemberCount, -1) returns once an entry is ready, with
\* revents written for every entry.
pollReturns ==
    /\ wpc = "poll"
    /\ \E rev \in [1..nat.pollMemberCount -> {0, POLLIN, POLLOUT, POLLIN + POLLOUT, POLLNVAL}] :
          /\ \A y \in 1..nat.pollMemberCount : rev[y] \in Revents(nat.pollData[y])
          /\ \E y \in 1..nat.pollMemberCount : rev[y] # 0
          /\ nat' = [nat EXCEPT !.pollData =
                       [ y \in 1..Len(nat.pollData) |->
                           IF y <= nat.pollMemberCount
                           THEN [nat.pollData[y] EXCEPT !.revents = rev[y]]
                           ELSE nat.pollData[y] ]]
    /\ wpc' = "scan"
    /\ wi' = 0
    /\ UNCHANGED << mutex, chan, ctl, bus, threads, wloc, handed, hook,
                    stopPc, calls, ret, pend, cb, implied, sent, wexp,
                    allocFailed >>
    /\ UNCHANGED inb

\* case EVENT_LOOP_EXIT after dbus_connection_set_watch_functions(NULL ...):
\* tearDownEventLoop, DetachCurrentThread, shutdown(controlFdR), return.
eventLoopExit ==
    /\ wpc = "unsetfn"
    /\ hook = << >>
    /\ bus' = TearDownEventLoop(bus)
    /\ ctl' = [ctl EXCEPT !.shutR = TRUE]
    /\ threads' = threads - 1
    /\ wpc' = "exited"
    \* tearDownEventLoop leaves an outstanding call as it is; the history
    \* field records that a teardown has passed since it was issued
    /\ pend' = [pend EXCEPT !.torn = (pend.st = "out")]
    /\ UNCHANGED << nat, mutex, chan, wi, wloc, handed, hook, stopPc, calls,
                    ret, cb, implied, sent, wexp, allocFailed >>
    /\ UNCHANGED inb

(***************************************************************************)
(* Asynchronous result callbacks: onCreatePairedDeviceResult and           *)
(* onGetDeviceServiceChannelResult.                                        *)
(***************************************************************************)
\* Replies the daemon can send to CreatePairedDevice: a method return, or an
\* error with a name and a message.
ErrorNames ==
    { "org.bluez.Error.AuthenticationFailed",
      "org.bluez.Error.AuthenticationRejected",
      "org.bluez.Error.AuthenticationCanceled",
      "org.bluez.Error.ConnectionAttemptFailed",
      "org.bluez.Error.AlreadyExists",
      "org.bluez.Error.InProgress",
      "org.bluez.Error.Failed" }

ErrorMessages ==
    { "Bonding in progress", "Discover in progress", "Operation failed" }

MethodReturn(argType, arg) ==
    [type |-> "return", name |-> "", message |-> "", argType |-> argType,
     arg |-> arg]

ErrorReplies ==
    { [type |-> "error", name |-> n, message |-> m, argType |-> "string",
       arg |-> 0] : n \in ErrorNames, m \in ErrorMessages }

PairReplies == { MethodReturn("none", 0) } \cup ErrorReplies

\* Replies to GetServiceChannel: a channel number, an argument that is no
\* INT32 (decoding fails), or an error.
ChannelReplies ==
    { MethodReturn("int32", 17), MethodReturn("string", 0) }
    \cup { r \in ErrorReplies : r.message = "Operation failed" }

\* dbus_set_error_from_message: true for an error message.
IsErrorReply(msg) == msg.type = "error"

\* onCreatePairedDeviceResult with the message test of line 931 left out:
\* every InProgress error takes the "goto done".
CreatePairedDeviceResultByNameOnly(msg) ==
    IF ~IsErrorReply(msg)
    THEN [call |-> TRUE, result |-> BOND_RESULT_SUCCESS]
    ELSE CASE msg.name = "org.bluez.Error.AuthenticationFailed" ->
                [call |-> TRUE, result |-> BOND_RESULT_AUTH_FAILED]
           [] msg.name = "org.bluez.Error.AuthenticationRejected" ->
                [call |-> TRUE, result |-> BOND_RESULT_AUTH_REJECTED]
           [] msg.name = "org.bluez.Error.AuthenticationCanceled" ->
                [call |-> TRUE, result |-> BOND_RESULT_AUTH_CANCELED]
           [] msg.name = "org.bluez.Error.ConnectionAttemptFailed" ->
                [call |-> TRUE, result |-> BOND_RESULT_REMOTE_DEVICE_DOWN]
           [] msg.name = "org.bluez.Error.AlreadyExists" ->
                [call |-> TRUE, result |-> BOND_RESULT_SUCCESS]
           [] msg.name = "org.bluez.Error.InProgress" ->
                [call |-> FALSE, result |-> BOND_RESULT_SUCCESS]
           [] OTHER -> [call |-> TRUE, result |-> BOND_RESULT_ERROR]

\* onCreatePairedDeviceResult, lines 906-947: whether the application
\* callback is invoked, and with which result.
CreatePairedDeviceResult(msg) ==
    IF ~IsErrorReply(msg)
    THEN [call |-> TRUE, result |-> BOND_RESULT_SUCCESS]
    ELSE IF msg.name = "org.bluez.Error.AuthenticationFailed"
    THEN [call |-> TRUE, result |-> BOND_RESULT_AUTH_FAILED]
    ELSE IF msg.name = "org.bluez.Error.AuthenticationRejected"
    THEN [call |-> TRUE, result |-> BOND_RESULT_AUTH_REJECTED]
    ELSE IF msg.name = "org.bluez.Error.AuthenticationCanceled"
    THEN [call |-> TRUE, result |-> BOND_RESULT_AUTH_CANCELED]
    ELSE IF msg.name = "org.bluez.Error.ConnectionAttemptFailed"
    THEN [call |-> TRUE, result |-> BOND_RESULT_REMOTE_DEVICE_DOWN]
    ELSE IF msg.name = "org.bluez.Error.AlreadyExists"
    THEN [call |-> TRUE, result |-> BOND_RESULT_SUCCESS]
    ELSE IF /\ msg.name = "org.bluez.Error.InProgress"
            /\ msg.message = "Bonding in progress"
    THEN [call |-> FALSE, result |-> BOND_RESULT_SUCCESS]
    ELSE IF /\ msg.name = "org.bluez.Error.InProgress"
            /\ msg.message = "Discover in progress"
    THEN [call |-> TRUE, result |-> BOND_RESULT_DISCOVERY_IN_PROGRESS]
    ELSE [call |-> TRUE, result |-> BOND_RESULT_ERROR]

\* onGetDeviceServiceChannelResult with channel passed on as decoded without
\* the test of lines 968-971: an argument that is no INT32 is reported as it
\* stands.
GetDeviceServiceChannelResultUnchecked(msg) ==
    IF IsErrorReply(msg)
    THEN [call |-> TRUE, result |-> -2]
    ELSE [call |-> TRUE, result |-> msg.arg]

\* onGetDeviceServiceChannelResult, lines 964-980: the channel handed to the
\* application callback; channel keeps its initial -2 unless an INT32 decodes.
GetDeviceServiceChannelResult(msg) ==
    IF IsErrorReply(msg) \/ msg.argType # "int32"
    THEN [call |-> TRUE, result |-> -2]
    ELSE [call |-> TRUE, result |-> msg.arg]

\* An asynchronous call is issued with a heap-allocated context and one of
\* the two result callbacks (the issuing code is in another file).
issueAsyncCall ==
    /\ nat.conn
    /\ pend.st # "out"
    /\ calls < MaxCalls
    /\ calls' = calls + 1
    /\ \E k \in {"CreatePairedDevice", "GetServiceChannel"} :
          pend' = [NoCall EXCEPT !.kind = k, !.st = "out"]
    /\ UNCHANGED << loopVars, ret, cb >>
    /\ UNCHANGED inb

\* The context freed only on the path that invokes the application
\* callback: "goto done" passing the free.
ContextOpsFreeAfterCallbackOnly(outcome) ==
    IF outcome.call THEN << "read", "read", "free" >> ELSE << "read" >>

\* What a result callback does with its context (user), in order: the
\* address is read for the log (lines 904, 966) and for the callback's
\* argument when it is invoked (lines 946, 979), then free(user) at the
\* end of the function (lines 950, 981), which "goto done" also reaches.
ContextOps(outcome) ==
    IF outcome.call THEN << "read", "read", "free" >> ELSE << "read", "free" >>

FreesIn(ops) == Cardinality({ k \in 1..Len(ops) : ops[k] = "free" })

\* dbus_connection_dispatch delivers the reply of the outstanding call: the
\* library runs the completion callback on the worker thread.
Completed(outcome, name, msg) ==
    /\ pend' = [pend EXCEPT !.st = "done", !.reply = msg, !.done = @ + 1,
                            !.frees = @ + FreesIn(ContextOps(outcome)),
                            !.ops = ContextOps(outcome),
                            !.cbs = IF outcome.call THEN @ + 1 ELSE @,
                            !.val = IF outcome.call THEN outcome.result ELSE @]
    /\ cb' = IF outcome.call THEN [name |-> name, val |-> outcome.result]
             ELSE cb

onCreatePairedDeviceResult ==
    /\ wpc = "dispatch"
    /\ hook = << >>
    /\ pend.st = "out"
    /\ pend.kind = "CreatePairedDevice"
    /\ \E msg \in PairReplies :
          Completed(CreatePairedDeviceResult(msg), "onCreatePairedDeviceResult", msg)
    /\ UNCHANGED << loopVars, calls, ret >>
    /\ UNCHANGED inb

onGetDeviceServiceChannelResult ==
    /\ wpc = "dispatch"
    /\ hook = << >>
    /\ pend.st = "out"
    /\ pend.kind = "GetServiceChannel"
    /\ \E msg \in ChannelReplies :
          Completed(GetDeviceServiceChannelResult(msg),
                    "onGetDeviceServiceChannelResult", msg)
    /\ UNCHANGED << loopVars, calls, ret >>
    /\ UNCHANGED inb

(***************************************************************************)
(* Specification of the loop, its control socket and its Watch Set.        *)
(***************************************************************************)
Next ==
    \/ startEventLoopNative
    \/ stopEventLoopNative
    \/ stopJoined
    \/ isEventLoopRunningNative
    \/ dbusAddWatch
    \/ dbusRemoveWatch
    \/ dbusToggleWatch
    \/ hookWrite
    \/ eventLoopStart
    \/ watchFunctionsSet
    \/ scanEntries
    \/ recvControl
    \/ addReadFd
    \/ addReadFlags
    \/ addReadWatch
    \/ removeReadFd
    \/ removeReadFlags
    \/ watchHandled
    \/ dispatchDone
    \/ pollReturns
    \/ eventLoopExit

Spec == Init /\ [][Next]_vars

\* The worker's own steps, which the scheduler keeps taking: every system
\* call that can return does, and every bus-library call returns.
WorkerStep ==
    \/ hookWrite
    \/ eventLoopStart
    \/ watchFunctionsSet
    \/ scanEntries
    \/ recvControl
    \/ addReadFd
    \/ addReadFlags
    \/ addReadWatch
    \/ removeReadFd
    \/ removeReadFlags
    \/ watchHandled
    \/ dispatchDone
    \/ pollReturns
    \/ eventLoopExit

\* The loop under a fair scheduler: the worker thread runs whenever it can,
\* and pthread_join returns once the worker has terminated.
FairSpec == Spec /\ WF_vars(WorkerStep) /\ WF_vars(stopJoined)

(***************************************************************************)
(* Specification of the loop with the calls the bus library delivers       *)
(* during dispatch, for a connection whose watches do not change.          *)
(***************************************************************************)
NextDispatch ==
    \/ startEventLoopNative
    \/ stopEventLoopNative
    \/ stopJoined
    \/ isEventLoopRunningNative
    \/ eventLoopStart
    \/ watchFunctionsSet
    \/ scanEntries
    \/ recvControl
    \/ dispatchDone
    \/ pollReturns
    \/ eventLoopExit
    \/ issueAsyncCall
    \/ onCreatePairedDeviceResult
    \/ onGetDeviceServiceChannelResult

SpecDispatch == Init /\ [][NextDispatch]_vars

(***************************************************************************)
(* Inbound messages: what event_filter and agent_event_filter are called   *)
(* with, and the record of what they do.                                   *)
(***************************************************************************)
\* Arguments of a message, each a pair of D-Bus type code and value.
ObjectPathArg == << "o", "/org/bluez/hci0/dev_AA_BB_CC_DD_EE_FF" >>
StringArg == << "s", "AA:BB:CC:DD:EE:FF" >>
Uint32Arg == << "u", "7" >>

\* dbus_message_get_args(msg, .., types, DBUS_TYPE_INVALID): the leading
\* arguments have the types asked for.
GetArgs(args, types) ==
    /\ Len(args) >= Len(types)
    /\ \A k \in 1..Len(types) : args[k][1] = types[k]

\* dbus_message_is_method_call(msg, iface, member): a call that carries no
\* interface matches on the member alone.
IsMethodCall(msg, iface, member) ==
    /\ msg.type = "method_call"
    /\ msg.member = member
    /\ msg.iface \in {"", iface}

\* dbus_message_is_signal(msg, iface, member).
IsSignal(msg, iface, member) ==
    /\ msg.type = "signal"
    /\ msg.member = member
    /\ msg.iface = iface

\* What a filter function does, in order: application callbacks (with the
\* value a boolean callback returns), messages sent, references taken,
\* synchronous calls made.
Callback(name, args, returned) ==
    [op |-> "callback", name |-> name, args |-> args, ret |-> returned]
Send(kind, args) == [op |-> "send", name |-> kind, args |-> args, ret |-> ""]
MessageRef == [op |-> "ref", name |-> "dbus_message_ref", args |-> << >>, ret |-> ""]

HANDLED == "DBUS_HANDLER_RESULT_HANDLED"
NOT_YET_HANDLED == "DBUS_HANDLER_RESULT_NOT_YET_HANDLED"

\* What a filter function has done when it returns; oom says that it could
\* not allocate its reply.
Did(events, result) == [did |-> events, result |-> result, oom |-> FALSE]

(***************************************************************************)
(* The Agent Responder: agent_event_filter.                                *)
(***************************************************************************)
\* The path the agent is registered at (line 196).
AgentObjectPath == "/android/bluetooth/agent"

\* Messages the library may call the agent's handler with.
AgentMembers == { "Cancel", "Authorize", "RequestPinCode", "Release", "ConfirmModeChange" }

AgentArgLists ==
    { << >>, << ObjectPathArg >>, << ObjectPathArg, StringArg >>,
      << StringArg, ObjectPathArg >> }

AgentMessages ==
    { [type |-> "method_call", path |-> AgentObjectPath, iface |-> i,
       member |-> m, args |-> a] :
        i \in {"org.bluez.Agent", ""}, m \in AgentMembers, a \in AgentArgLists }
    \cup { [type |-> "method_call", path |-> AgentObjectPath,
            iface |-> "org.bluez.Adapter", member |-> "Release", args |-> << >>],
           [type |-> "signal", path |-> AgentObjectPath,
            iface |-> "org.bluez.Agent", member |-> "Cancel", args |-> << >>] }

\* "reply = dbus_message_new_method_return(msg)" (or _new_error) with the test
\* "if (!reply) return NOT_YET_HANDLED", then dbus_connection_send.
ReplyOrFail(before, reply, replyOk) ==
    IF replyOk
    THEN Did(Append(before, reply), HANDLED)
    ELSE [Did(before, NOT_YET_HANDLED) EXCEPT !.oom = TRUE]

\* The returns of lines 785, 818, 855 and 879: the message is declined.
AgentDeclinesAsHandled == Did(<< >>, HANDLED)

AgentDeclines == Did(<< >>, NOT_YET_HANDLED)

\* The Cancel branch with the reply sent before the callback is invoked.
AgentCancelReplyFirst(replyOk) ==
    IF replyOk
    THEN Did(<< Send("method_return", << >>),
                Callback("onAgentCancel", << >>, "") >>, HANDLED)
    ELSE [Did(<< >>, NOT_YET_HANDLED) EXCEPT !.oom = TRUE]

\* Lines 795-808.
AgentCancel(replyOk) ==
    ReplyOrFail(<< Callback("onAgentCancel", << >>, "") >>,
                Send("method_return", << >>), replyOk)

\* The Authorize branch with the success reply sent whatever the callback
\* returns.
AgentAuthorizeAlwaysGranted(msg, auth_granted, replyOk) ==
    IF ~GetArgs(msg.args, << "o", "s" >>) THEN AgentDeclines
    ELSE ReplyOrFail(
            << Callback("onAgentAuthorize", << msg.args[1][2], msg.args[2][2] >>,
                        IF auth_granted THEN "true" ELSE "false") >>,
            Send("method_return", << >>), replyOk)

\* Lines 810-848.
AgentAuthorize(msg, auth_granted, replyOk) ==
    IF ~GetArgs(msg.args, << "o", "s" >>) THEN AgentDeclines
    ELSE ReplyOrFail(
            << Callback("onAgentAuthorize", << msg.args[1][2], msg.args[2][2] >>,
                        IF auth_granted THEN "true" ELSE "false") >>,
            IF auth_granted
            THEN Send("method_return", << >>)
            ELSE Send("error", << "org.bluez.Error.Rejected",
                                  "Authorization rejected" >>),
            replyOk)

\* The RequestPinCode branch without the dbus_message_ref of line 859.
AgentRequestPinCodeWithoutRef(msg) ==
    IF ~GetArgs(msg.args, << "o" >>) THEN AgentDeclines
    ELSE Did(<< Callback("onRequestPinCode", << msg.args[1][2], "msg" >>, "") >>,
             HANDLED)

\* Lines 849-863: the callback is given the object path and the message.
AgentRequestPinCode(msg) ==
    IF ~GetArgs(msg.args, << "o" >>) THEN AgentDeclines
    ELSE Did(<< MessageRef,
                Callback("onRequestPinCode", << msg.args[1][2], "msg" >>, "") >>,
             HANDLED)

\* Lines 864-874.
AgentRelease(replyOk) == ReplyOrFail(<< >>, Send("method_return", << >>), replyOk)

\* agent_event_filter, lines 781-880.  (nat is the pointer the path was
\* registered with and is never NULL.)
AgentEventFilter(msg, auth_granted, replyOk) ==
    IF msg.type # "method_call" THEN AgentDeclines
    ELSE IF IsMethodCall(msg, "org.bluez.Agent", "Cancel")
    THEN AgentCancel(replyOk)
    ELSE IF IsMethodCall(msg, "org.bluez.Agent", "Authorize")
    THEN AgentAuthorize(msg, auth_granted, replyOk)
    ELSE IF IsMethodCall(msg, "org.bluez.Agent", "RequestPinCode")
    THEN AgentRequestPinCode(msg)
    ELSE IF IsMethodCall(msg, "org.bluez.Agent", "Release")
    THEN AgentRelease(replyOk)
    ELSE AgentDeclines

\* The record of a call of a filter function.
Inbound(fn, msg, d) ==
    [fn |-> fn, msg |-> msg, did |-> d.did, result |-> d.result, oom |-> d.oom]

\* dbus_connection_dispatch hands a message for the registered agent path to
\* agent_event_filter, on the worker thread.
agent_event_filter ==
    /\ wpc = "dispatch"
    /\ hook = << >>
    /\ bus.agentPath
    /\ calls < MaxCalls
    /\ calls' = calls + 1
    /\ \E msg \in AgentMessages, auth_granted \in BOOLEAN, replyOk \in BOOLEAN :
          inb' = Inbound("agent_event_filter", msg,
                         AgentEventFilter(msg, auth_granted, replyOk))
    /\ UNCHANGED << loopVars, ret, pend, cb >>

(***************************************************************************)
(* Specification of the loop with the method calls the bus library hands   *)
(* to the agent during dispatch.                                           *)
(***************************************************************************)
NextAgent ==
    \/ startEventLoopNative
    \/ stopEventLoopNative
    \/ stopJoined
    \/ isEventLoopRunningNative
    \/ eventLoopStart
    \/ watchFunctionsSet
    \/ scanEntries
    \/ recvControl
    \/ dispatchDone
    \/ pollReturns
    \/ eventLoopExit
    \/ agent_event_filter

SpecAgent == Init /\ [][NextAgent]_vars

(***************************************************************************)
(* The Signal Dispatcher: event_filter.                                    *)
(***************************************************************************)
\* The spelling of the strings the program compares character by character.
Chars(s) ==
    CASE s = "Powered" -> << "P", "o", "w", "e", "r", "e", "d" >>
      [] s = "PoweredOff" -> << "P", "o", "w", "e", "r", "e", "d", "O", "f", "f" >>
      [] s = "Name" -> << "N", "a", "m", "e" >>
      [] s = "true" -> << "t", "r", "u", "e" >>
      [] s = "tru" -> << "t", "r", "u" >>
      [] s = "truehome" -> << "t", "r", "u", "e", "h", "o", "m", "e" >>
      [] s = "false" -> << "f", "a", "l", "s", "e" >>
      [] OTHER -> << >>

Strlen(s) == Len(Chars(s))

\* strncmp(s1, s2, n) = 0: the first n characters agree, the comparison
\* ending at the terminating NUL of both.
StrncmpEqual(s1, s2, n) ==
    \A k \in 1..n :
        (k <= Strlen(s1) \/ k <= Strlen(s2)) =>
            /\ k <= Strlen(s1)
            /\ k <= Strlen(s2)
            /\ Chars(s1)[k] = Chars(s2)[k]

\* strcmp(s1, s2) = 0.
StrcmpEqual(s1, s2) == Chars(s1) = Chars(s2)

PropertyNames == { "Powered", "PoweredOff", "Name" }
PropertyValues == { "true", "truehome", "tru", "false" }

\* A dictionary of properties as DeviceFound carries it.
DictArg == << "a{sv}", "Name=Phone" >>

\* parse_remote_device_properties (android_bluetooth_common.cpp): the
\* dictionary as an array of strings, NULL (the empty tuple) when the
\* argument is not a dictionary.
ParseRemoteDeviceProperties(arg) ==
    IF arg[1] = "a{sv}" /\ arg[2] = "Name=Phone" THEN << "Name", "Phone" >>
    ELSE << >>

\* parse_adapter_property_change and parse_remote_device_property_change
\* (android_bluetooth_common.cpp): name and value of a (string, variant)
\* payload, NULL (the empty tuple) for any other payload.
ParsePropertyChange(args) ==
    IF GetArgs(args, << "s", "v" >>) THEN << args[1][2], args[2][2] >>
    ELSE << >>

\* What the lookup of get_adapter_path can return (lines 208-240): the
\* adapter as before, the adapter of a restarted daemon, or NULL.
RestartedAdapterPath == "/org/bluez/hci1"
AdapterLookups == { AdapterPath, RestartedAdapterPath, NoAdapter }

Lookup(returned) ==
    [op |-> "lookup", name |-> "get_adapter_path", args |-> << >>, ret |-> returned]

DevicePath == "/org/bluez/hci0/dev_AA_BB_CC_DD_EE_FF"

\* Payloads of the device signals, and of the property changes.
DeviceArgLists ==
    { << >>, << StringArg >>, << ObjectPathArg >>, << StringArg, DictArg >>,
      << ObjectPathArg, DictArg >>, << Uint32Arg, DictArg >>,
      << StringArg, StringArg >> }

PropertyArgLists ==
    { << >>, << StringArg >> }
    \cup { << << "s", n >>, << "v", v >> >> : n \in PropertyNames, v \in PropertyValues }

SignalArgLists(member) ==
    IF member = "PropertyChanged" THEN PropertyArgLists ELSE DeviceArgLists

\* The (interface, member) pairs event_filter tests for, in order.
RecognizedSignals ==
    { << "org.bluez.Adapter", "DeviceFound" >>,
      << "org.bluez.Adapter", "DeviceDisappeared" >>,
      << "org.bluez.Adapter", "DeviceCreated" >>,
      << "org.bluez.Adapter", "DeviceRemoved" >>,
      << "org.bluez.Adapter", "PropertyChanged" >>,
      << "org.bluez.Device", "PropertyChanged" >> }

SignalMessages ==
    UNION { { [type |-> "signal",
               path |-> IF s[1] = "org.bluez.Adapter" THEN AdapterPath
                        ELSE DevicePath,
               iface |-> s[1], member |-> s[2], args |-> a] :
                a \in SignalArgLists(s[2]) } :
            s \in RecognizedSignals
                  \cup { << "org.bluez.Adapter", "ModeChanged" >>,
                         << "org.bluez.AudioSink", "PropertyChanged" >> } }
    \cup { [type |-> "method_call", path |-> AdapterPath,
            iface |-> "org.bluez.Adapter", member |-> "DeviceFound",
            args |-> << StringArg, DictArg >>] }

\* What a call of event_filter did: the events, the result, whether it
\* assigned nat->adapter, and whether it brought the process down.
SignalDid(events, result, refreshed, crash) ==
    [did |-> events, result |-> result, oom |-> FALSE, refreshed |-> refreshed,
     crash |-> crash]

\* A handler with one argument read by dbus_message_get_args (lines
\* 701-739): the callback when the argument has the type, nothing otherwise.
OneArgSignal(msg, type, callback) ==
    IF GetArgs(msg.args, << type >>)
    THEN SignalDid(<< Callback(callback, << msg.args[1][2] >>, "") >>, HANDLED,
                   FALSE, FALSE)
    ELSE SignalDid(<< >>, HANDLED, FALSE, FALSE)

\* DeviceFound with the type of the first argument checked before it is
\* read as the address.
DeviceFoundChecked(msg, ub) ==
    IF /\ GetArgs(msg.args, << "s" >>)
       /\ Len(msg.args) >= 2
       /\ ParseRemoteDeviceProperties(msg.args[2]) # << >>
    THEN SignalDid(<< Callback("onDeviceFound",
                               << msg.args[1][2] >>
                                   \o ParseRemoteDeviceProperties(msg.args[2]),
                               "") >>,
                   HANDLED, FALSE, FALSE)
    ELSE SignalDid(<< >>, HANDLED, FALSE, FALSE)

\* Lines 681-700.  dbus_message_iter_get_basic stores the first argument
\* into c_address whatever its type: a string or an object path leaves a
\* pointer to its characters, any other type leaves c_address not pointing
\* to a string, and NewStringUTF of it is undefined: the process dies or
\* the callback gets the bytes found there.
DeviceFound(msg, ub) ==
    LET str_array == IF Len(msg.args) >= 2
                     THEN ParseRemoteDeviceProperties(msg.args[2])
                     ELSE << >>
    IN  IF str_array = << >> THEN SignalDid(<< >>, HANDLED, FALSE, FALSE)
        ELSE IF msg.args[1][1] \in { "s", "o" }
        THEN SignalDid(<< Callback("onDeviceFound",
                                   << msg.args[1][2] >> \o str_array, "") >>,
                       HANDLED, FALSE, FALSE)
        ELSE IF ub = "crash" THEN SignalDid(<< >>, "none", FALSE, TRUE)
        ELSE SignalDid(<< Callback("onDeviceFound",
                                   << "garbage" >> \o str_array, "") >>,
                       HANDLED, FALSE, FALSE)

\* The test of lines 748-752 made with strcmp.
RefreshesAdapterExact(str_array) ==
    /\ StrcmpEqual(str_array[1], "Powered")
    /\ StrcmpEqual(str_array[2], "true")

\* Lines 748-752: both comparisons are strncmp over the length of the
\* literal.
RefreshesAdapter(str_array) ==
    /\ StrncmpEqual(str_array[1], "Powered", Strlen("Powered"))
    /\ StrncmpEqual(str_array[2], "true", Strlen("true"))

\* Lines 740-762.
AdapterPropertyChanged(msg, lookup) ==
    LET str_array == ParsePropertyChange(msg.args)
    IN  IF str_array = << >> THEN SignalDid(<< >>, HANDLED, FALSE, FALSE)
        ELSE IF RefreshesAdapter(str_array)
        THEN SignalDid(<< Lookup(lookup),
                          Callback("onPropertyChanged", str_array, "") >>,
                       HANDLED, TRUE, FALSE)
        ELSE SignalDid(<< Callback("onPropertyChanged", str_array, "") >>,
                       HANDLED, FALSE, FALSE)

\* Lines 763-774.
DevicePropertyChanged(msg) ==
    LET str_array == ParsePropertyChange(msg.args)
    IN  IF str_array = << >> THEN SignalDid(<< >>, HANDLED, FALSE, FALSE)
        ELSE SignalDid(<< Callback("onDevicePropertyChanged",
                                   << msg.path >> \o str_array, "") >>,
                       HANDLED, FALSE, FALSE)

\* a2dp_event_filter (android_server_BluetoothA2dpService.cpp): the sink's
\* property changes go to its own callback, anything else is declined.
A2dpEventFilter(msg) ==
    IF /\ IsSignal(msg, "org.bluez.AudioSink", "PropertyChanged")
       /\ ParsePropertyChange(msg.args) # << >>
    THEN SignalDid(<< Callback("onSinkPropertyChanged",
                               << msg.path >> \o ParsePropertyChange(msg.args),
                               "") >>,
                   HANDLED, FALSE, FALSE)
    ELSE SignalDid(<< >>, NOT_YET_HANDLED, FALSE, FALSE)

\* event_filter, lines 661-778.
EventFilter(msg, lookup, ub) ==
    IF msg.type # "signal" THEN SignalDid(<< >>, NOT_YET_HANDLED, FALSE, FALSE)
    ELSE IF IsSignal(msg, "org.bluez.Adapter", "DeviceFound")
    THEN DeviceFound(msg, ub)
    ELSE IF IsSignal(msg, "org.bluez.Adapter", "DeviceDisappeared")
    THEN OneArgSignal(msg, "s", "onDeviceDisappeared")
    ELSE IF IsSignal(msg, "org.bluez.Adapter", "DeviceCreated")
    THEN OneArgSignal(msg, "o", "onDeviceCreated")
    ELSE IF IsSignal(msg, "org.bluez.Adapter", "DeviceRemoved")
    THEN OneArgSignal(msg, "o", "onDeviceRemoved")
    ELSE IF IsSignal(msg, "org.bluez.Adapter", "PropertyChanged")
    THEN AdapterPropertyChanged(msg, lookup)
    ELSE IF IsSignal(msg, "org.bluez.Device", "PropertyChanged")
    THEN DevicePropertyChanged(msg)
    ELSE A2dpEventFilter(msg)

\* dbus_connection_dispatch hands a message to the installed filter, on the
\* worker thread.
event_filter ==
    /\ wpc = "dispatch"
    /\ hook = << >>
    /\ bus.filter > 0
    /\ calls < MaxCalls
    /\ calls' = calls + 1
    /\ \E msg \in SignalMessages, lookup \in AdapterLookups,
          ub \in { "garbage", "crash" } :
          LET d == EventFilter(msg, lookup, ub)
          IN  /\ inb' = Inbound("event_filter", msg, d)
              /\ nat' = [nat EXCEPT !.adapter = IF d.refreshed THEN lookup ELSE @]
              /\ wpc' = IF d.crash THEN "crashed" ELSE wpc
    /\ UNCHANGED << mutex, chan, ctl, bus, threads, wi, wloc, handed, hook,
                    stopPc, implied, sent, wexp, allocFailed, ret, pend, cb >>

(***************************************************************************)
(* Specification of the loop with the signals the bus library hands to the *)
(* filter during dispatch.                                                 *)
(***************************************************************************)
NextSignals ==
    \/ startEventLoopNative
    \/ stopEventLoopNative
    \/ stopJoined
    \/ isEventLoopRunningNative
    \/ eventLoopStart
    \/ watchFunctionsSet
    \/ scanEntries
    \/ recvControl
    \/ dispatchDone
    \/ pollReturns
    \/ eventLoopExit
    \/ event_filter

SpecSignals == Init /\ [][NextSignals]_vars

(***************************************************************************)
(* Properties of the Watch Set and the control socket.                     *)
(***************************************************************************)
\* The (descriptor, flags) pairs the Watch Set holds besides the control
\* entry.
WatchPairs(n) ==
    { << n.pollData[y].fd, FlagsOfEvents(n.pollData[y].events) >> :
        y \in { z \in 1..n.pollMemberCount : n.pollData[z].fd # n.controlFdR } }

\* The loop runs and every control message that was started has been written
\* in full and applied.
Quiescent ==
    /\ wpc \in {"scan", "drain", "handle", "dispatch", "poll"}
    /\ hook = << >>
    /\ chan = << >>

\* C1: once every watch request made through the hooks has been applied by
\* the worker (and no allocation failed on the way), the Watch Set holds
\* exactly the (descriptor, flags) pairs the requests imply.
C1_WatchSetIsImplied ==
    (Quiescent /\ ~allocFailed) => WatchPairs(nat) = implied

\* The worker has just finished reading the fields of a message.
AddWasRead == wpc = "add_watch" /\ wpc' = "drain"
RemoveWasRead == wpc = "rm_flags" /\ wpc' = "drain"

\* C2: every byte the worker takes for a command byte was written as one, in
\* send order, and the fields the worker then reads are the fields written
\* with that command byte.
C2_FramingIntact ==
    [][ /\ (wpc = "drain" /\ chan # << >>) =>
              (sent # << >> /\ Head(sent).cmd = Head(chan))
        /\ AddWasRead =>
              /\ wexp.cmd = EVENT_LOOP_ADD
              /\ wloc'.fd = wexp.fd
              /\ wloc'.flags = wexp.flags
              /\ wloc'.watch = wexp.watch
        /\ RemoveWasRead =>
              /\ wexp.cmd = EVENT_LOOP_REMOVE
              /\ wloc'.fd = wexp.fd
              /\ wloc'.flags = wexp.flags ]_vars

(***************************************************************************)
(* Properties of the lifecycle calls.                                      *)
(***************************************************************************)
\* A lifecycle call returns in this step.
Returns(op) == ret' # ret /\ ret'.op = op

\* The worker thread exists and runs.
WorkerAlive == wpc \notin {"none", "exited", "crashed"}

\* C3: a start on a started loop returns false, leaves every field of the
\* loop, the worker and the control socket as it was, and leaves the mutex
\* free; there is never more than one worker thread.
C3_SecondStartRejected ==
    /\ [][ (Returns("start") /\ IsStarted(nat)) =>
              /\ ret'.val = FALSE
              /\ UNCHANGED << nat, chan, ctl, bus, threads, wpc, wi, wloc,
                              handed, hook, stopPc >>
              /\ mutex' = "free" ]_vars
    /\ [](threads <= 1)

\* A start was rejected while the worker of the first start runs.
C3_Witness ==
    /\ ret.op = "start" /\ ret.val = FALSE
    /\ IsStarted(nat)
    /\ threads = 1
    /\ WorkerAlive
    /\ mutex = "free"

\* stopEventLoopNative starts to wait, and stops waiting, in this step.
StopBegins == stopPc = "idle" /\ stopPc' = "join"
StopEnds == stopPc = "join" /\ stopPc' = "idle"

\* What stop does before it waits, and what it finds and does after.
StopSendsExit ==
    /\ IsStarted(nat)
    /\ chan' = Append(chan, EVENT_LOOP_EXIT)
    /\ UNCHANGED << nat, ctl, wpc, threads >>

StopReleasesAfterJoin ==
    /\ wpc = "exited"
    /\ threads = 0
    /\ Returns("stop") /\ ret'.val = TRUE
    /\ ~IsStarted(nat')
    /\ nat'.pollDataSize = 0 /\ nat'.pollMemberCount = 0
    /\ nat'.controlFdR = 0 /\ nat'.controlFdW = 0
    /\ ctl'.shutW
    /\ ~WorkerAlive'

C5_StopReturns == (stopPc = "join") ~> (stopPc = "idle" \/ wpc = "crashed")

\* C6: stop on a loop that is not started writes nothing to the control
\* socket, waits for no thread and changes no field of the loop; it returns.
C6_StopOnIdleIsNoOp ==
    [][ /\ (~IsStarted(nat) /\ stopPc = "idle") => stopPc' = "idle"
        /\ (Returns("stop") /\ ~IsStarted(nat)) =>
              /\ stopPc = "idle"
              /\ UNCHANGED loopVars ]_vars

\* stop has returned on a loop whose only start failed in setUpEventLoop.
C6_Witness ==
    /\ ret.op = "stop" /\ ret.val = FALSE
    /\ ~IsStarted(nat)
    /\ ctl.made = 1
    /\ bus.filter = 1
    /\ wpc = "none"

\* C7: when handleWatchRemove finds no entry with the descriptor and events
\* it read, the count and every entry are as before.
C7_RemoveAbsentIsNoOp ==
    [][ (RemoveWasRead /\ Matching(nat, wloc'.fd, EventsOfFlags(wloc'.flags)) = {})
          => /\ nat'.pollMemberCount = nat.pollMemberCount
             /\ Entries(nat') = Entries(nat)
             /\ nat' = nat ]_vars

\* A removal of a pair of the library's that the set does not hold has been
\* applied to a set that holds another watch.
C7_Witness ==
    /\ wpc = "drain"
    /\ wexp.cmd = EVENT_LOOP_REMOVE
    /\ wloc.fd = BusFd /\ wloc.flags = wexp.flags
    /\ wloc.log = "WatchRemove given with unknown watch"
    /\ nat.pollMemberCount = 2

\* No two live entries have the same descriptor and events.
NoDuplicateEntries ==
    \A y, z \in 1..nat.pollMemberCount :
        (/\ nat.pollData[y].fd = nat.pollData[z].fd
         /\ nat.pollData[y].events = nat.pollData[z].events) => y = z

\* C8: no two live entries share a (descriptor, events) pair, and an add of
\* a pair the set holds leaves the set as it was.
C8_NoDuplicatePairs ==
    /\ []NoDuplicateEntries
    /\ [][ (AddWasRead /\ Matching(nat, wloc'.fd, EventsOfFlags(wloc'.flags)) # {})
              => nat' = nat ]_vars

\* The library's watch was added a second time and the set still holds it
\* once.
C8_Witness ==
    /\ wpc = "drain"
    /\ wexp.cmd = EVENT_LOOP_ADD
    /\ wloc.fd = BusFd /\ wloc.flags = wexp.flags /\ wloc.watch = wexp.watch
    /\ wloc.log = "DBusWatch duplicate add"
    /\ nat.pollMemberCount = 2

(***************************************************************************)
(* Properties of the asynchronous result callbacks.                        *)
(***************************************************************************)
\* C9: the completion callback of a call runs at most once, and once the
\* worker has torn the loop down with the call outstanding (stop was called
\* before the reply came), the callback has run.
C9_CompletedExactlyOnce ==
    /\ pend.done <= 1
    /\ pend.torn => pend.done = 1

\* The table of results by reply.
BondResultTable(reply) ==
    CASE reply.type = "return" -> BOND_RESULT_SUCCESS
      [] reply.type = "error" /\ reply.name = "org.bluez.Error.AuthenticationFailed"
            -> BOND_RESULT_AUTH_FAILED
      [] reply.type = "error" /\ reply.name = "org.bluez.Error.AuthenticationRejected"
            -> BOND_RESULT_AUTH_REJECTED
      [] reply.type = "error" /\ reply.name = "org.bluez.Error.AuthenticationCanceled"
            -> BOND_RESULT_AUTH_CANCELED
      [] reply.type = "error" /\ reply.name = "org.bluez.Error.ConnectionAttemptFailed"
            -> BOND_RESULT_REMOTE_DEVICE_DOWN
      [] reply.type = "error" /\ reply.name = "org.bluez.Error.AlreadyExists"
            -> BOND_RESULT_SUCCESS
      [] /\ reply.type = "error" /\ reply.name = "org.bluez.Error.InProgress"
         /\ reply.message = "Discover in progress"
            -> BOND_RESULT_DISCOVERY_IN_PROGRESS
      [] OTHER -> BOND_RESULT_ERROR

\* The one reply that is not reported.
Suppressed(reply) ==
    /\ reply.type = "error"
    /\ reply.name = "org.bluez.Error.InProgress"
    /\ reply.message = "Bonding in progress"

\* C10: when onCreatePairedDeviceResult has run for a reply, the application
\* callback was invoked once with the value the table gives for the reply,
\* or, for InProgress with "Bonding in progress", not at all.
C10_BondResultByTable ==
    (pend.kind = "CreatePairedDevice" /\ pend.st = "done") =>
        IF Suppressed(pend.reply)
        THEN pend.cbs = 0
        ELSE /\ pend.cbs = 1
             /\ pend.val = BondResultTable(pend.reply)
             /\ cb = [name |-> "onCreatePairedDeviceResult",
                      val |-> BondResultTable(pend.reply)]

\* An InProgress error with another message has been reported as an error.
C10_Witness ==
    /\ pend.kind = "CreatePairedDevice" /\ pend.st = "done"
    /\ pend.reply.name = "org.bluez.Error.InProgress"
    /\ pend.reply.message = "Operation failed"
    /\ pend.cbs = 1
    /\ cb.val = BOND_RESULT_ERROR

CallbacksOf(did) == { k \in 1..Len(did) : did[k].op = "callback" }

SendsOf(did) == { k \in 1..Len(did) : did[k].op = "send" }

RefsOf(did) == { k \in 1..Len(did) : did[k].op = "ref" }

AgentGot(member) ==
    /\ inb.fn = "agent_event_filter"
    /\ IsMethodCall(inb.msg, "org.bluez.Agent", member)

AuthorizeWellFormed ==
    AgentGot("Authorize") /\ GetArgs(inb.msg.args, << "o", "s" >>)

\* The authorize callback was invoked exactly once, first, and exactly one
\* reply followed it: a method return for true, the Rejected error for false.
AuthorizeAnswered ==
    /\ Len(inb.did) = 2
    /\ CallbacksOf(inb.did) = {1}
    /\ inb.did[1].name = "onAgentAuthorize"
    /\ SendsOf(inb.did) = {2}
    /\ inb.did[2] = IF inb.did[1].ret = "true"
                    THEN Send("method_return", << >>)
                    ELSE Send("error", << "org.bluez.Error.Rejected",
                                          "Authorization rejected" >>)

\* C12 as stated: a well-formed Authorize call is always answered.
C12_AuthorizeAlwaysAnswered == AuthorizeWellFormed => AuthorizeAnswered

\* C12: for an Authorize call with well-formed arguments the authorize
\* callback is invoked exactly once and then exactly one reply is sent, an
\* empty method return when the callback returned true and the error
\* org.bluez.Error.Rejected when it returned false -- unless the reply
\* message cannot be allocated, in which case the callback has been invoked
\* once, nothing is sent and the call is reported as not handled.
C12_AuthorizeAnswered ==
    AuthorizeWellFormed =>
        IF inb.oom
        THEN /\ Len(inb.did) = 1
             /\ CallbacksOf(inb.did) = {1}
             /\ inb.did[1].name = "onAgentAuthorize"
             /\ inb.result = NOT_YET_HANDLED
        ELSE AuthorizeAnswered /\ inb.result = HANDLED

C12_Witness ==
    /\ AuthorizeWellFormed
    /\ Len(inb.did) = 2
    /\ inb.did[1].ret = "false"
    /\ inb.did[2].name = "error"
    /\ inb.did[2].args[1] = "org.bluez.Error.Rejected"

RequestPinCodeWellFormed ==
    AgentGot("RequestPinCode") /\ GetArgs(inb.msg.args, << "o" >>)

\* C15: for a RequestPinCode call with a well-formed argument no reply is
\* sent, exactly one reference is taken on the message before the callback,
\* the request-pin callback is invoked exactly once with the object path and
\* the message, and the message is reported as handled.
C15_RequestPinCodeKeepsMessage ==
    RequestPinCodeWellFormed =>
        /\ SendsOf(inb.did) = {}
        /\ RefsOf(inb.did) = {1}
        /\ CallbacksOf(inb.did) = {2}
        /\ inb.did[2] = Callback("onRequestPinCode",
                                 << inb.msg.args[1][2], "msg" >>, "")
        /\ inb.result = HANDLED

C15_Witness ==
    /\ RequestPinCodeWellFormed
    /\ Len(inb.did) = 2
    /\ inb.did[1] = MessageRef
    /\ inb.did[2].name = "onRequestPinCode"
    /\ inb.result = HANDLED

ReleaseAnswered == inb.did = << Send("method_return", << >>) >>

CancelAnswered ==
    inb.did = << Callback("onAgentCancel", << >>, ""),
                 Send("method_return", << >>) >>

\* C16 as stated: Release and Cancel are always answered.
C16_ReleaseCancelAlwaysAnswered ==
    /\ AgentGot("Release") => ReleaseAnswered
    /\ AgentGot("Cancel") => CancelAnswered

\* C16: for a Release call exactly one empty method return is sent and no
\* callback is invoked; for a Cancel call the cancel callback is invoked
\* exactly once and only afterwards exactly one empty method return is sent
\* -- unless the reply message cannot be allocated, in which case nothing is
\* sent (after the cancel callback, for Cancel) and the call is reported as
\* not handled.
C16_ReleaseCancelAnswered ==
    /\ AgentGot("Release") =>
          IF inb.oom
          THEN inb.did = << >> /\ inb.result = NOT_YET_HANDLED
          ELSE ReleaseAnswered /\ inb.result = HANDLED
    /\ AgentGot("Cancel") =>
          IF inb.oom
          THEN /\ inb.did = << Callback("onAgentCancel", << >>, "") >>
               /\ inb.result = NOT_YET_HANDLED
          ELSE CancelAnswered /\ inb.result = HANDLED

C16_Witness ==
    /\ AgentGot("Cancel")
    /\ Len(inb.did) = 2
    /\ inb.did[1].name = "onAgentCancel"
    /\ inb.did[2].op = "send"

HandledMembers == { "Cancel", "Authorize", "RequestPinCode", "Release" }

\* The messages the Agent Responder is to decline.
AgentDeclineCase ==
    /\ inb.fn = "agent_event_filter"
    /\ \/ inb.msg.type # "method_call"
       \/ AgentGot("Authorize") /\ ~GetArgs(inb.msg.args, << "o", "s" >>)
       \/ AgentGot("RequestPinCode") /\ ~GetArgs(inb.msg.args, << "o" >>)
       \/ /\ inb.msg.type = "method_call"
          /\ \A m \in HandledMembers : ~AgentGot(m)

\* C17: a message the Agent Responder declines (Authorize or RequestPinCode
\* with malformed arguments, a method call with any other member, a message
\* that is not a method call) is reported as not handled, with no reply
\* sent, no callback invoked and no reference taken on the message.
C17_DeclinedUntouched ==
    AgentDeclineCase =>
        /\ inb.result = NOT_YET_HANDLED
        /\ SendsOf(inb.did) = {}
        /\ CallbacksOf(inb.did) = {}
        /\ RefsOf(inb.did) = {}

C17_Witness ==
    /\ AgentGot("RequestPinCode")
    /\ inb.msg.args = << StringArg, ObjectPathArg >>
    /\ inb.result = NOT_YET_HANDLED
    /\ inb.did = << >>

(***************************************************************************)
(* Properties of the Signal Dispatcher.                                    *)
(***************************************************************************)
Recognized(msg) ==
    msg.type = "signal" /\ << msg.iface, msg.member >> \in RecognizedSignals

\* The callback a recognized signal is to produce, by the schema of its
\* payload; the empty tuple when the payload does not fit the schema.
Expected(msg) ==
    CASE msg.member = "DeviceFound" ->
            IF /\ GetArgs(msg.args, << "s", "a{sv}" >>)
               /\ ParseRemoteDeviceProperties(msg.args[2]) # << >>
            THEN << Callback("onDeviceFound",
                             << msg.args[1][2] >>
                                 \o ParseRemoteDeviceProperties(msg.args[2]), "") >>
            ELSE << >>
      [] msg.member = "DeviceDisappeared" ->
            IF GetArgs(msg.args, << "s" >>)
            THEN << Callback("onDeviceDisappeared", << msg.args[1][2] >>, "") >>
            ELSE << >>
      [] msg.member = "DeviceCreated" ->
            IF GetArgs(msg.args, << "o" >>)
            THEN << Callback("onDeviceCreated", << msg.args[1][2] >>, "") >>
            ELSE << >>
      [] msg.member = "DeviceRemoved" ->
            IF GetArgs(msg.args, << "o" >>)
            THEN << Callback("onDeviceRemoved", << msg.args[1][2] >>, "") >>
            ELSE << >>
      [] msg.member = "PropertyChanged" /\ msg.iface = "org.bluez.Adapter" ->
            IF ParsePropertyChange(msg.args) # << >>
            THEN << Callback("onPropertyChanged", ParsePropertyChange(msg.args), "") >>
            ELSE << >>
      [] msg.member = "PropertyChanged" /\ msg.iface = "org.bluez.Device" ->
            IF ParsePropertyChange(msg.args) # << >>
            THEN << Callback("onDevicePropertyChanged",
                             << msg.path >> \o ParsePropertyChange(msg.args), "") >>
            ELSE << >>
      [] OTHER -> << >>

CallbacksIn(did) == SelectSeq(did, LAMBDA e : e.op = "callback")

\* C13: for every inbound message the Signal Dispatcher invokes at most one
\* application callback; a recognized signal whose payload decodes gets
\* exactly the callback of its kind with the decoded payload, a recognized
\* signal with a malformed payload gets none, and a message that is not a
\* signal gets none and is declined.
C13_OneCallbackPerSignal ==
    inb.fn = "event_filter" =>
        /\ Len(CallbacksIn(inb.did)) <= 1
        /\ Recognized(inb.msg) => CallbacksIn(inb.did) = Expected(inb.msg)
        /\ inb.msg.type # "signal" =>
               inb.did = << >> /\ inb.result = NOT_YET_HANDLED

(***************************************************************************)
(* Properties of a start that fails.                                       *)
(***************************************************************************)
\* A start that found the loop idle returns failure.
FailedStartReturns ==
    /\ Returns("start")
    /\ ~ret'.val
    /\ ~StartFindsLoop(nat)

\* Nothing the start acquired is left: no worker, no Watch Set storage, no
\* descriptor that was not open before, and the registrations on the bus
\* (filter, match rules, agent path) as they were.
FailedStartReleased ==
    /\ ~IsStarted(nat')
    /\ threads' = threads
    /\ wpc' = wpc
    /\ nat'.pollData = << >>
    /\ nat'.watchData = << >>
    /\ OpenFds' = OpenFds
    /\ bus' = bus

\* C14: when start() fails during setup it returns failure, the loop is
\* idle with no worker thread, and every resource start() had acquired up to
\* the failure is released: Watch Set storage, Control Channel endpoints,
\* the installed filter, the added match rules and the agent object path.
C14_FailedStartReleases == [][FailedStartReturns => FailedStartReleased]_vars

AdapterPropertyHandled ==
    /\ event_filter
    /\ IsSignal(inb'.msg, "org.bluez.Adapter", "PropertyChanged")
    /\ ParsePropertyChange(inb'.msg.args) # << >>

\* The adapter path was looked up, stored, and then the callback invoked.
RefreshedBeforeCallback ==
    /\ Len(inb'.did) = 2
    /\ inb'.did[1] = Lookup(nat'.adapter)
    /\ inb'.did[2] = Callback("onPropertyChanged",
                              ParsePropertyChange(inb'.msg.args), "")

NotRefreshed ==
    /\ nat'.adapter = nat.adapter
    /\ inb'.did = << Callback("onPropertyChanged",
                              ParsePropertyChange(inb'.msg.args), "") >>

AdapterRefreshedExactly ==
    AdapterPropertyHandled =>
        IF /\ inb'.msg.args[1][2] = "Powered"
           /\ inb'.msg.args[2][2] = "true"
        THEN RefreshedBeforeCallback
        ELSE NotRefreshed

\* C19: on an Adapter PropertyChanged signal the cached adapter path is
\* refreshed by a lookup exactly when the property name is "Powered" and the
\* value is "true", and then before the property-changed callback is
\* invoked; for every other name or value it is left unchanged.
C19_AdapterRefreshedOnPowered == [][AdapterRefreshedExactly]_vars

(***************************************************************************)
(* Properties of isEventLoopRunningNative.                                 *)
(***************************************************************************)
\* A start has returned success and no stop has completed since: the last
\* socket pair was made by a start that succeeded (a failed start shuts it
\* down before it returns) and stop has not shut it down yet.
StartedAndNotStopped == ctl.made > 0 /\ ~ctl.shutW

IsRunningReportsState ==
    Returns("isRunning") =>
        /\ ret'.val = StartedAndNotStopped
        /\ stopPc = "idle"
        /\ mutex = "free"

\* C20: isRunning() returns true exactly when some start() has returned
\* success and no stop() has completed since, false otherwise, and it never
\* runs in the middle of a start() or a stop().
C20_IsRunningReportsState == [][IsRunningReportsState]_vars

\* isRunning() has just returned true while a stop() was never begun.
C20_Witness ==
    /\ ret = [op |-> "isRunning", val |-> TRUE, at |-> calls]
    /\ StartedAndNotStopped
    /\ stopPc = "idle"

(***************************************************************************)
(* Properties of the worker's iteration.                                   *)
(***************************************************************************)
\* The worker leaves the handling call for the dispatch, the dispatch for
\* poll(), and takes up the scan only at the start, after poll() or after
\* draining the control socket.
OneHandOffPerIteration ==
    /\ (wpc = "handle" /\ wpc' # wpc) => wpc' = "dispatch"
    /\ (wpc = "dispatch" /\ wpc' # wpc) => wpc' = "poll"
    /\ (wpc' = "scan" /\ wpc # "scan") => wpc \in {"setfn", "drain", "poll"}
    /\ (wpc' = "handle" /\ wpc # "handle") => wpc = "scan"

\* C21: in each iteration of the worker loop at most one ready non-control
\* entry is handed to dbus_watch_handle: after the call the scan is left,
\* the dispatch queue is drained and the worker blocks in poll(); no entry
\* is examined between the handling call and poll().
C21_OneHandOffPerIteration == [][OneHandOffPerIteration]_vars

\* One entry was handled and left the scan while a later entry is ready.
C21_Witness ==
    /\ wpc = "dispatch"
    /\ wi = 1
    /\ nat.pollMemberCount = 3
    /\ nat.pollData[2].revents = 0
    /\ nat.pollData[3].revents # 0

\* C22: the readiness value handed to dbus_watch_handle for a ready entry is
\* the translation of what poll() reported: DBUS_WATCH_READABLE set iff
\* POLLIN was reported, DBUS_WATCH_WRITABLE set iff POLLOUT was reported,
\* and no other bit set.
C22_HandedFlagsTranslated ==
    wpc = "handle" =>
        handed.flags = FlagsOfEvents(nat.pollData[wi + 1].revents)

\* The recv loop is left for the scan only with the socket empty.
DrainsAllQueued == (wpc = "drain" /\ wpc' = "scan") => chan = << >>

\* Once Exit is read the worker applies nothing and hands nothing over: it
\* can only end.
NothingAfterExit ==
    wpc = "unsetfn" =>
        /\ wpc' \in {"unsetfn", "exited"}
        /\ nat' = nat
        /\ handed' = handed

\* The Exit byte stop() has written is read as Exit: when the socket is
\* empty again the worker is on its way out.
ExitEndsConsumption ==
    (stopPc = "join" /\ chan = << >>) => wpc \in {"unsetfn", "exited", "crashed"}

ControlDrainStep == DrainsAllQueued /\ NothingAfterExit /\ ExitEndsConsumption'

\* C23: when the control entry is ready the worker consumes every message
\* queued on the control socket, in order, before it examines a further
\* entry; an Exit message ends the consumption at once: nothing queued
\* after it is applied, and no entry is handed to the library after it.
C23_ControlDrainedExitLast == [][ControlDrainStep]_vars

(***************************************************************************)
(* Properties of the Watch Set storage.                                    *)
(***************************************************************************)
\* The entry count and the recorded capacity fit both arrays.
WithinCapacity(n) ==
    /\ 0 <= n.pollMemberCount
    /\ n.pollMemberCount <= n.pollDataSize
    /\ n.pollDataSize <= Len(n.pollData)
    /\ n.pollDataSize <= Len(n.watchData)

\* The live part of the two arrays.
LiveEntries(n) ==
    [ y \in 1..n.pollMemberCount |->
        << n.pollData[y].fd, n.pollData[y].events, n.watchData[y] >> ]

\* handleWatchAdd had to grow the arrays and did not add: an allocation
\* failed.
GrowthFailed ==
    /\ AddWasRead
    /\ Matching(nat, wloc.fd, EventsOfFlags(wloc.flags)) = {}
    /\ nat.pollMemberCount = nat.pollDataSize
    /\ nat'.pollMemberCount = nat.pollMemberCount

\* handleWatchAdd added the entry it read.
AddApplied ==
    /\ nat'.pollMemberCount = nat.pollMemberCount + 1
    /\ LiveEntries(nat') =
          Append(LiveEntries(nat),
                 << wloc.fd, EventsOfFlags(wloc.flags), wloc'.watch >>)
    /\ WithinCapacity(nat')

\* handleWatchRemove removed the entries the pair it read matches, one, and
\* no other.
RemoveApplied ==
    /\ Entries(nat') =
          Entries(nat) \ { e \in Entries(nat) :
                             e[1] = wloc.fd /\ e[2] = EventsOfFlags(wloc'.flags) }
    /\ WithinCapacity(nat')

AllocationFailureStep ==
    /\ GrowthFailed => (LiveEntries(nat') = LiveEntries(nat) /\ WithinCapacity(nat'))
    /\ (allocFailed /\ AddWasRead /\ ~GrowthFailed
          /\ Matching(nat, wloc.fd, EventsOfFlags(wloc.flags)) = {}) => AddApplied
    /\ (allocFailed /\ RemoveWasRead) => RemoveApplied

\* C24: when an allocation fails while the storage is grown for an add, the
\* add is abandoned and the Watch Set holds the same entries and handles as
\* before, with the entry count within the capacity of both arrays; adds
\* and removes that come later are applied as usual.
C24_GrowthFailureKeepsSet == [][AllocationFailureStep]_vars

\* After a failed growth a later add was applied: the set has three entries.
C24_Witness ==
    /\ allocFailed
    /\ wpc = "drain"
    /\ nat.pollMemberCount = 3
    /\ Len(nat.watchData) = 3

\* C25: while the loop is started, after any sequence of adds and removes
\* the entry count is at least 0 and at most the recorded capacity, which
\* is at most the length of the poll array and of the handle array: the
\* slot handleWatchAdd writes is inside both.
C25_CountWithinCapacity ==
    IsStarted(nat) =>
        /\ nat.pollMemberCount >= 0
        /\ nat.pollMemberCount <= Len(nat.pollData)
        /\ nat.pollMemberCount <= Len(nat.watchData)
        /\ nat.pollMemberCount <= nat.pollDataSize
        /\ nat.pollDataSize <= Len(nat.pollData)
        /\ nat.pollDataSize <= Len(nat.watchData)

\* The arrays were grown and are full: three entries in arrays of three.
C25_Witness ==
    /\ IsStarted(nat)
    /\ nat.pollMemberCount = 3
    /\ nat.pollDataSize = 3
    /\ Len(nat.pollData) = 3
    /\ Len(nat.watchData) = 3
    /\ nat.watchData[3] \in WatchHandles

\* The entry at index y (counted from 1) is the control entry, which has no
\* watch, or holds the handle of the watch whose AddWatch message carried
\* its descriptor and interest.
PairedWithOwnHandle(n, y) ==
    \/ /\ n.pollData[y].fd = n.controlFdR
       /\ n.pollData[y].events = POLLIN
       /\ n.watchData[y] = 0
    \/ \E w \in Watches :
          /\ n.watchData[y] = w.h
          /\ n.pollData[y].fd = w.fd
          /\ n.pollData[y].events = EventsOfFlags(w.flags)

\* C26: after any sequence of adds and removes every entry of the Watch Set
\* is paired with its own watch handle: the handle stored at an index is
\* the one sent in the AddWatch message that created the (descriptor,
\* interest) entry at that index.
C26_EntriesKeepTheirHandles ==
    IsStarted(nat) =>
        \A y \in 1..nat.pollMemberCount : PairedWithOwnHandle(nat, y)

\* The scan hands an entry to dbus_watch_handle in this step.
HandsOver == wpc = "scan" /\ wpc' = "handle"

\* No byte of a hook's message is waiting on the control socket: at most
\* the Exit byte of a stop().
NoRemovePending == \A k \in 1..Len(chan) : chan[k] = EVENT_LOOP_EXIT

\* No RemoveWatch message is waiting when an entry is handed over, and an
\* entry that holds a watch of the library belongs to a watch the library
\* has not asked to remove since it asked to add it.
HandsOverLiveWatch ==
    HandsOver =>
        /\ NoRemovePending
        /\ (\E w \in Watches :
                /\ nat.watchData[wi' + 1] = w.h
                /\ nat.pollData[wi' + 1].fd = w.fd
                /\ nat.pollData[wi' + 1].events = EventsOfFlags(w.flags))
             => << nat.pollData[wi' + 1].fd,
                   FlagsOfEvents(nat.pollData[wi' + 1].events) >> \in implied

\* C27: the worker never hands to dbus_watch_handle a watch that the
\* library has already asked to remove: every RemoveWatch message the remove
\* hook has queued is applied to the Watch Set before the next ready entry
\* is handed over.
C27_RemovedWatchNotHanded == [][HandsOverLiveWatch]_vars

(***************************************************************************)
(* Teardown against setup.                                                  *)
(***************************************************************************)
\* The worker's last step, in which it runs tearDownEventLoop.
WorkerTearsDown == wpc = "unsetfn" /\ wpc' = "exited"

\* The registrations the teardown leaves are those a successful
\* setUpEventLoop started from.
TeardownUndoesSetup == WorkerTearsDown => SetUpEventLoop(bus', "ok") = bus

\* C28: a successful start() followed by stop() restores the bus
\* subscriptions to their pre-start state: every match rule, the message
\* filter and the agent object path that setUpEventLoop registered are
\* removed by tearDownEventLoop, so cycles do not accumulate registrations.
C28_TeardownRestoresSubscriptions == [][TeardownUndoesSetup]_vars

(***************************************************************************)
(* Restart.                                                                 *)
(***************************************************************************)
\* stop() returns from a started loop.
StopReturns == stopPc = "join" /\ stopPc' = "idle"

\* start() returns FALSE although it found no loop.
StartFails ==
    /\ ret' # ret /\ ret'.op = "start" /\ ~ret'.val
    /\ ~StartFindsLoop(nat)

\* start() returns TRUE.
StartSucceeds == ret' # ret /\ ret'.op = "start" /\ ret'.val

FullyReset(n) ==
    /\ n.pollData = << >> /\ n.watchData = << >>
    /\ n.pollDataSize = 0 /\ n.pollMemberCount = 0
    /\ n.controlFdR = 0 /\ n.controlFdW = 0

StartsWithControlEntry(n) ==
    /\ n.pollMemberCount = 1
    /\ n.controlFdR # 0
    /\ n.pollData[1].fd = n.controlFdR
    /\ n.pollData[1].events = POLLIN
    /\ n.watchData[1] = 0

RestartStep ==
    /\ (StopReturns \/ StartFails) =>
          /\ FullyReset(nat')
          /\ wpc' = "none"
          /\ ~StartFindsLoop(nat')
    /\ StartSucceeds =>
          /\ StartsWithControlEntry(nat')
          /\ nat'.controlFdR = CtlFdR(ctl.made)
          /\ wpc' = "init"

\* C29: the loop can be restarted: when stop() has returned, or a start()
\* has failed, there is no Watch Set storage, the entry count is 0, no
\* control endpoint is recorded and there is no worker, so a later start()
\* is not rejected as a second start; a start() that succeeds begins with
\* exactly one entry, the Control Channel read endpoint with read interest.
C29_LoopCanBeRestarted == [][RestartStep]_vars

\* A start() has succeeded after an earlier run of the loop was stopped and
\* torn down: the second Control Channel's read endpoint is the one entry.
C29_Witness ==
    /\ ret.op = "start" /\ ret.val /\ wpc = "init"
    /\ bus.matches["org.freedesktop.DBus"] = 1
    /\ bus.matches["org.bluez.Device"] = 2
    /\ nat.pollMemberCount = 1 /\ nat.pollData[1].fd = CtlFdR(1)

============================================================================
